---- MODULE Spec2Model ----
(***************************************************************************)
(* ApiPosture for Node.js: endpoint discovery (Express, NestJS, Fastify,   *)
(* Koa), authorization extraction and classification, the rule engine with *)
(* its eight rules, and the suppression matcher.                           *)
(*                                                                         *)
(* Source text is modelled as TLA+ strings (Len, SubSeq and \o act on      *)
(* them character by character), syntax trees as records, and each        *)
(* method of the program as an operator computed the way the code          *)
(* computes it.                                                            *)
(***************************************************************************)
EXTENDS Integers, Sequences, FiniteSets, TLC

VARIABLES
    pc,           \* position of the driver: which stage runs next
    project,      \* the loaded source files of the scan, in load order
    di,           \* index of the discoverer ProjectAnalyzer is running
    fi,           \* index of the file that discoverer sees next
    registry,     \* the ExpressDiscoverer instance's RouteGroupRegistry
    endpoints,    \* Endpoint[] collected so far
    rules,        \* the RuleEngine instance's rules, by id
    findings,     \* Finding[] produced by the rule engine
    suppressions, \* the SuppressionMatcher instance's list
    configuration, \* the ApiPostureConfig: rule entries and suppressions
    result        \* Finding[] the last stage handed on

vars == <<pc, project, di, fi, registry, endpoints, rules, findings, suppressions,
          configuration, result>>

-----------------------------------------------------------------------------
(* JavaScript string primitives *)

CharAt(s, i) == SubSeq(s, i, i)

LowerChar(c) ==
    CASE c = "A" -> "a" [] c = "B" -> "b" [] c = "C" -> "c" [] c = "D" -> "d"
      [] c = "E" -> "e" [] c = "F" -> "f" [] c = "G" -> "g" [] c = "H" -> "h"
      [] c = "I" -> "i" [] c = "J" -> "j" [] c = "K" -> "k" [] c = "L" -> "l"
      [] c = "M" -> "m" [] c = "N" -> "n" [] c = "O" -> "o" [] c = "P" -> "p"
      [] c = "Q" -> "q" [] c = "R" -> "r" [] c = "S" -> "s" [] c = "T" -> "t"
      [] c = "U" -> "u" [] c = "V" -> "v" [] c = "W" -> "w" [] c = "X" -> "x"
      [] c = "Y" -> "y" [] c = "Z" -> "z" [] OTHER -> c

UpperChar(c) ==
    CASE c = "a" -> "A" [] c = "b" -> "B" [] c = "c" -> "C" [] c = "d" -> "D"
      [] c = "e" -> "E" [] c = "f" -> "F" [] c = "g" -> "G" [] c = "h" -> "H"
      [] c = "i" -> "I" [] c = "j" -> "J" [] c = "k" -> "K" [] c = "l" -> "L"
      [] c = "m" -> "M" [] c = "n" -> "N" [] c = "o" -> "O" [] c = "p" -> "P"
      [] c = "q" -> "Q" [] c = "r" -> "R" [] c = "s" -> "S" [] c = "t" -> "T"
      [] c = "u" -> "U" [] c = "v" -> "V" [] c = "w" -> "W" [] c = "x" -> "X"
      [] c = "y" -> "Y" [] c = "z" -> "Z" [] OTHER -> c

RECURSIVE toLowerCase(_)
toLowerCase(s) ==
    IF s = "" THEN ""
    ELSE LowerChar(CharAt(s, 1)) \o toLowerCase(SubSeq(s, 2, Len(s)))

RECURSIVE toUpperCase(_)
toUpperCase(s) ==
    IF s = "" THEN ""
    ELSE UpperChar(CharAt(s, 1)) \o toUpperCase(SubSeq(s, 2, Len(s)))

startsWith(s, p) == Len(s) >= Len(p) /\ SubSeq(s, 1, Len(p)) = p

endsWith(s, p) == Len(s) >= Len(p) /\ SubSeq(s, Len(s) - Len(p) + 1, Len(s)) = p

includes(s, sub) ==
    \E i \in 1..(Len(s) - Len(sub) + 1) : SubSeq(s, i, i + Len(sub) - 1) = sub

\* s.split(sep) for a one-character separator
RECURSIVE split(_, _)
split(s, sep) ==
    IF ~includes(s, sep) THEN <<s>>
    ELSE LET i == CHOOSE k \in 1..Len(s) :
                      /\ CharAt(s, k) = sep
                      /\ \A j \in 1..(k - 1) : CharAt(s, j) # sep
         IN <<SubSeq(s, 1, i - 1)>> \o split(SubSeq(s, i + 1, Len(s)), sep)

\* s.split('.').pop()
lastSegment(s) == LET parts == split(s, ".") IN parts[Len(parts)]

RECURSIVE trim(_)
trim(s) ==
    IF s = "" THEN ""
    ELSE IF CharAt(s, 1) = " " THEN trim(SubSeq(s, 2, Len(s)))
    ELSE IF CharAt(s, Len(s)) = " " THEN trim(SubSeq(s, 1, Len(s) - 1))
    ELSE s

\* s.replace(/['"]/g, '')
RECURSIVE stripQuotes(_)
stripQuotes(s) ==
    IF s = "" THEN ""
    ELSE IF CharAt(s, 1) \in {"'", "\""} THEN stripQuotes(SubSeq(s, 2, Len(s)))
    ELSE CharAt(s, 1) \o stripQuotes(SubSeq(s, 2, Len(s)))

\* Array.prototype.join
RECURSIVE join(_, _)
join(xs, sep) ==
    IF Len(xs) = 0 THEN ""
    ELSE IF Len(xs) = 1 THEN xs[1]
    ELSE xs[1] \o sep \o join(Tail(xs), sep)

\* regular expressions of the shapes the program uses, all with the i flag
matchesExact(word, s) == toLowerCase(s) = toLowerCase(word)      \* /^word$/i
matchesAnywhere(word, s) == includes(toLowerCase(s), toLowerCase(word)) \* /word/i
matchesPrefix(word, s) == startsWith(toLowerCase(s), toLowerCase(word)) \* /^word/i

Range(xs) == {xs[i] : i \in 1..Len(xs)}

-----------------------------------------------------------------------------
(* TypeScript syntax trees.  A node is a record                            *)
(*   kind        ts.SyntaxKind                                              *)
(*   text        node.text of a literal or identifier; the name of a       *)
(*               property access, property assignment, class or method;    *)
(*               the head of a template expression                         *)
(*   expression  <<callee>> of a call, <<object>> of a property access,    *)
(*               <<initializer>> of a property assignment, else <<>>       *)
(*   arguments   arguments of a call, elements of an array literal,        *)
(*               properties of an object literal, members of a class       *)
(*   spans       literal texts of a template expression's spans            *)
(*   decorators  decorator expressions of a class or method                *)

Node(kind, text, expression, arguments, spans, decorators) ==
    [kind |-> kind, text |-> text, expression |-> expression,
     arguments |-> arguments, spans |-> spans, decorators |-> decorators]

StringLiteral(t) == Node("StringLiteral", t, <<>>, <<>>, <<>>, <<>>)
NoSubstitutionTemplateLiteral(t) ==
    Node("NoSubstitutionTemplateLiteral", t, <<>>, <<>>, <<>>, <<>>)
TemplateExpression(head, spans) ==
    Node("TemplateExpression", head, <<>>, <<>>, spans, <<>>)
Identifier(t) == Node("Identifier", t, <<>>, <<>>, <<>>, <<>>)
PropertyAccessExpression(obj, name) ==
    Node("PropertyAccessExpression", name, <<obj>>, <<>>, <<>>, <<>>)
CallExpression(callee, args) == Node("CallExpression", "", <<callee>>, args, <<>>, <<>>)
ArrayLiteralExpression(elems) ==
    Node("ArrayLiteralExpression", "", <<>>, elems, <<>>, <<>>)
ObjectLiteralExpression(props) ==
    Node("ObjectLiteralExpression", "", <<>>, props, <<>>, <<>>)
PropertyAssignment(name, init) ==
    Node("PropertyAssignment", name, <<init>>, <<>>, <<>>, <<>>)
ArrowFunction == Node("ArrowFunction", "", <<>>, <<>>, <<>>, <<>>)
NumericLiteral(t) == Node("NumericLiteral", t, <<>>, <<>>, <<>>, <<>>)
MethodDeclaration(name, decos) == Node("MethodDeclaration", name, <<>>, <<>>, <<>>, decos)
NewExpression(callee, args) == Node("NewExpression", "", <<callee>>, args, <<>>, <<>>)
ClassDeclaration(name, decos, members) ==
    Node("ClassDeclaration", name, <<>>, members, <<>>, decos)

isStringLiteral(n) == n.kind = "StringLiteral"
isNoSubstitutionTemplateLiteral(n) == n.kind = "NoSubstitutionTemplateLiteral"
isTemplateExpression(n) == n.kind = "TemplateExpression"
isIdentifier(n) == n.kind = "Identifier"
isPropertyAccessExpression(n) == n.kind = "PropertyAccessExpression"
isCallExpression(n) == n.kind = "CallExpression"
isArrayLiteralExpression(n) == n.kind = "ArrayLiteralExpression"
isObjectLiteralExpression(n) == n.kind = "ObjectLiteralExpression"
isPropertyAssignment(n) == n.kind = "PropertyAssignment"
isArrowFunction(n) == n.kind = "ArrowFunction"
isMethodDeclaration(n) == n.kind = "MethodDeclaration"
isNewExpression(n) == n.kind = "NewExpression"
isClassDeclaration(n) == n.kind = "ClassDeclaration"

\* node.getText(sourceFile), for source written without optional white space
RECURSIVE getText(_)
getText(n) ==
    CASE n.kind = "Identifier" -> n.text
      [] n.kind = "NumericLiteral" -> n.text
      [] n.kind = "StringLiteral" -> "'" \o n.text \o "'"
      [] n.kind = "PropertyAccessExpression" ->
            getText(n.expression[1]) \o "." \o n.text
      [] n.kind = "CallExpression" ->
            getText(n.expression[1]) \o "("
              \o join([i \in 1..Len(n.arguments) |-> getText(n.arguments[i])], ",")
              \o ")"
      [] n.kind = "ArrayLiteralExpression" ->
            "[" \o join([i \in 1..Len(n.arguments) |-> getText(n.arguments[i])], ",")
                \o "]"
      [] OTHER -> "..."

\* findNodes(sourceFile, ts.isCallExpression): the call expressions of the
\* given nodes in pre-order (a node before its children, children in source
\* order: decorators, then the callee or object, then the arguments).
RECURSIVE findCallExpressions(_)
findCallExpressions(nodes) ==
    IF Len(nodes) = 0 THEN <<>>
    ELSE LET n == nodes[1]
         IN (IF isCallExpression(n) THEN <<n>> ELSE <<>>)
              \o findCallExpressions(n.decorators \o n.expression \o n.arguments)
              \o findCallExpressions(Tail(nodes))

\* A loaded source file: its path and its top-level statements.
LoadedSourceFile(filePath, statements) ==
    [filePath |-> filePath, statements |-> statements]

-----------------------------------------------------------------------------
(* core/models *)

HttpMethod == {"GET", "POST", "PUT", "DELETE", "PATCH", "OPTIONS", "HEAD", "ALL"}

writeMethods == {"POST", "PUT", "DELETE", "PATCH"}

\* an isWriteMethod that leaves PATCH out
isWriteMethod_withoutPatch(method) == method \in {"POST", "PUT", "DELETE"}

isWriteMethod(method) == method \in writeMethods

\* parseHttpMethod(value): <<m>> for the enum member found, <<>> for undefined
parseHttpMethod(value) ==
    LET normalized == toUpperCase(value)
    IN IF normalized \in HttpMethod THEN <<normalized>> ELSE <<>>

createDefaultAuthorizationInfo ==
    [isAuthenticated |-> FALSE,
     isExplicitlyPublic |-> FALSE,
     roles |-> <<>>,
     policies |-> <<>>,
     middlewareChain |-> <<>>,
     guardNames |-> <<>>,
     classification |-> "public"]

\* a determineClassification that tests the roles before the policies
determineClassification_rolesFirst(auth) ==
    IF Len(auth.roles) > 0 THEN "role-restricted"
    ELSE IF Len(auth.policies) > 0 THEN "policy-restricted"
    ELSE IF auth.isAuthenticated THEN "authenticated"
    ELSE "public"

determineClassification(auth) ==
    IF Len(auth.policies) > 0 THEN "policy-restricted"
    ELSE IF Len(auth.roles) > 0 THEN "role-restricted"
    ELSE IF auth.isAuthenticated THEN "authenticated"
    ELSE "public"

\* createEndpoint: controllerName is <<>> when the discoverer gives none
createEndpoint(route, method, handlerName, controllerName, type, location, authorization) ==
    [route |-> route,
     method |-> method,
     handlerName |-> handlerName,
     controllerName |-> controllerName,
     type |-> type,
     location |-> location,
     authorization |-> authorization]

\* getLineAndColumn(sourceFile, node.getStart(sourceFile)): a call expression
\* is located by its rank among the file's call expressions in source order,
\* a method by its class and member rank.
SourceLocation(filePath, line, column) ==
    [filePath |-> filePath, line |-> line, column |-> column]

-----------------------------------------------------------------------------
(* core/discovery/route-group-registry.ts                                  *)
(* A JavaScript Map iterates in insertion order of its keys: each map is a *)
(* sequence of <<key, array>> entries in that order.                       *)

makeKey(filePath, variableName) == filePath \o "::" \o variableName

NewRouteGroupRegistry == [groups |-> <<>>, routerMounts |-> <<>>]

mapHas(m, key) == \E i \in 1..Len(m) : m[i].key = key

mapGet(m, key) == (CHOOSE i \in 1..Len(m) : m[i].key = key)

\* map.get(key).push(v), after map.set(key, []) when the key is new
mapPush(m, key, v) ==
    IF mapHas(m, key)
    THEN [i \in 1..Len(m) |->
             IF m[i].key = key THEN [m[i] EXCEPT !.items = Append(@, v)] ELSE m[i]]
    ELSE Append(m, [key |-> key, items |-> <<v>>])

registerGroup(reg, filePath, variableName, prefix, middlewares) ==
    [reg EXCEPT !.groups =
        mapPush(@, makeKey(filePath, variableName),
                [prefix |-> prefix, middlewares |-> middlewares,
                 variableName |-> variableName, filePath |-> filePath])]

registerRouterMount(reg, filePath, appVariableName, prefix, routerName) ==
    [reg EXCEPT !.routerMounts =
        mapPush(@, makeKey(filePath, appVariableName),
                [prefix |-> prefix, routerName |-> routerName])]

\* a getGroup that returns the group registered first for the key
getGroup_firstRegistration(reg, filePath, variableName) ==
    LET key == makeKey(filePath, variableName)
    IN IF mapHas(reg.groups, key)
       THEN <<reg.groups[mapGet(reg.groups, key)].items[1]>>
       ELSE <<>>

\* getGroup: <<group>> or <<>> for undefined
getGroup(reg, filePath, variableName) ==
    LET key == makeKey(filePath, variableName)
    IN IF mapHas(reg.groups, key)
       THEN LET gs == reg.groups[mapGet(reg.groups, key)].items
            IN <<gs[Len(gs)]>>
       ELSE <<>>

\* a getRouterPrefix that looks only at the mounts the given file registered
getRouterPrefix_sameFileOnly(reg, filePath, routerName) ==
    LET own == SelectSeq(reg.routerMounts, LAMBDA e : startsWith(e.key, filePath \o "::"))
        hasMount(i) ==
            \E j \in 1..Len(own[i].items) : own[i].items[j].routerName = routerName
        hits == {i \in 1..Len(own) : hasMount(i)}
    IN IF hits = {} THEN ""
       ELSE LET i == CHOOSE k \in hits : \A l \in hits : k <= l
                ms == own[i].items
                j == CHOOSE k \in 1..Len(ms) :
                        /\ ms[k].routerName = routerName
                        /\ \A l \in 1..(k - 1) : ms[l].routerName # routerName
            IN ms[j].prefix

\* the first mount of routerName in the first map entry that has one
getRouterPrefix(reg, filePath, routerName) ==
    LET hasMount(i) ==
            \E j \in 1..Len(reg.routerMounts[i].items) :
                reg.routerMounts[i].items[j].routerName = routerName
        hits == {i \in 1..Len(reg.routerMounts) : hasMount(i)}
    IN IF hits = {} THEN ""
       ELSE LET i == CHOOSE k \in hits : \A l \in hits : k <= l
                ms == reg.routerMounts[i].items
                j == CHOOSE k \in 1..Len(ms) :
                        /\ ms[k].routerName = routerName
                        /\ \A l \in 1..(k - 1) : ms[l].routerName # routerName
            IN ms[j].prefix

getAllMiddlewares(reg, filePath, variableName) ==
    LET group == getGroup(reg, filePath, variableName)
    IN IF group = <<>> THEN <<>> ELSE group[1].middlewares

\* a clear that empties the groups only
clear_keepsMounts(reg) == [reg EXCEPT !.groups = <<>>]

clear(reg) == [groups |-> <<>>, routerMounts |-> <<>>]

-----------------------------------------------------------------------------
(* core/authorization/express-auth-extractor.ts *)

\* /^passport\.authenticate/i is a prefix test, the others are /^word$/i
Express_AUTH_MIDDLEWARE_PATTERNS ==
    <<"jwt", "expressjwt", "requireAuth", "ensureAuthenticated", "isAuthenticated",
      "authenticate", "authMiddleware", "checkAuth", "verifyToken", "validateToken",
      "bearerToken", "auth", "protected">>

\* public-marker patterns without noAuth and optional
Express_PUBLIC_PATTERNS_short == <<"allowAnonymous", "public", "skipAuth">>

Express_PUBLIC_PATTERNS == <<"allowAnonymous", "public", "skipAuth", "noAuth", "optional">>

Express_ROLE_PATTERNS ==
    <<"requireRole", "hasRole", "roles", "checkRole", "authorize", "can", "permit">>

\* matchesPatterns(name, patterns); withPassport adds /^passport\.authenticate/i
Express_matchesPatterns(name, patterns, withPassport) ==
    LET funcName == IF includes(name, ".") THEN lastSegment(name) ELSE name
    IN \/ withPassport /\ matchesPrefix("passport.authenticate", funcName)
       \/ \E i \in 1..Len(patterns) : matchesExact(patterns[i], funcName)

Express_containsAuthKeyword(name) ==
    LET keywords == <<"auth", "jwt", "token", "session", "login", "secure">>
        lower == toLowerCase(name)
    IN \E i \in 1..Len(keywords) : includes(lower, keywords[i])

\* middleware.match(/\(['"]?([^'")\]]+)['"]?\]/i): <<group 1>> of the leftmost
\* match, <<>> when there is none.  After "(" comes an optional quote, the
\* longest run of characters other than ' " ) ], an optional quote and "]".
Express_roleMatch(middleware) ==
    LET n == Len(middleware)
        quote(k) == k <= n /\ CharAt(middleware, k) \in {"'", "\""}
        inClass(k) == k <= n /\ CharAt(middleware, k) \notin {"'", "\"", ")", "]"}
        start(i) == IF quote(i + 1) THEN i + 2 ELSE i + 1
        \* the first position at or after k that is not in the class
        runEnd(k) == CHOOSE e \in k..(n + 1) :
                        /\ ~inClass(e)
                        /\ \A j \in k..(e - 1) : inClass(j)
        close(e) == IF quote(e) THEN e + 1 ELSE e
        matchAt(i) ==
            /\ CharAt(middleware, i) = "("
            /\ inClass(start(i))
            /\ LET c == close(runEnd(start(i)))
               IN c <= n /\ CharAt(middleware, c) = "]"
        hits == {i \in 1..n : matchAt(i)}
    IN IF hits = {} THEN <<>>
       ELSE LET i == CHOOSE k \in hits : \A l \in hits : k <= l
            IN <<SubSeq(middleware, start(i), runEnd(start(i)) - 1)>>

Express_extractRolesFromMiddleware(middleware) ==
    LET roleMatch == Express_roleMatch(middleware)
    IN IF roleMatch # <<>>
       THEN LET parts == split(roleMatch[1], ",")
            IN [i \in 1..Len(parts) |-> stripQuotes(trim(parts[i]))]
       ELSE IF includes(middleware, ".")
       THEN LET lastPart == lastSegment(middleware)
            IN IF ~Express_matchesPatterns(lastPart, Express_AUTH_MIDDLEWARE_PATTERNS, TRUE)
               THEN <<lastPart>>
               ELSE <<>>
       ELSE <<>>

\* a processMiddleware that tests the auth keywords before the patterns
Express_processMiddleware_keywordFirst(middleware, auth) ==
    LET normalizedName == trim(middleware)
    IN IF Express_containsAuthKeyword(normalizedName)
       THEN [auth EXCEPT !.isAuthenticated = TRUE,
                         !.guardNames = Append(@, normalizedName)]
       ELSE IF Express_matchesPatterns(normalizedName, Express_PUBLIC_PATTERNS, FALSE)
       THEN [auth EXCEPT !.isExplicitlyPublic = TRUE]
       ELSE IF Express_matchesPatterns(normalizedName, Express_ROLE_PATTERNS, FALSE)
       THEN [auth EXCEPT !.isAuthenticated = TRUE,
                         !.roles = @ \o Express_extractRolesFromMiddleware(normalizedName)]
       ELSE auth

Express_processMiddleware(middleware, auth) ==
    LET normalizedName == trim(middleware)
    IN IF Express_matchesPatterns(normalizedName, Express_PUBLIC_PATTERNS, FALSE)
       THEN [auth EXCEPT !.isExplicitlyPublic = TRUE]
       ELSE IF Express_matchesPatterns(normalizedName, Express_AUTH_MIDDLEWARE_PATTERNS, TRUE)
       THEN [auth EXCEPT !.isAuthenticated = TRUE,
                         !.guardNames = Append(@, normalizedName)]
       ELSE IF Express_matchesPatterns(normalizedName, Express_ROLE_PATTERNS, FALSE)
       THEN [auth EXCEPT !.isAuthenticated = TRUE,
                         !.roles = @ \o Express_extractRolesFromMiddleware(normalizedName)]
       ELSE IF Express_containsAuthKeyword(normalizedName)
       THEN [auth EXCEPT !.isAuthenticated = TRUE,
                         !.guardNames = Append(@, normalizedName)]
       ELSE auth

RECURSIVE Express_processAll(_, _)
Express_processAll(middlewares, auth) ==
    IF Len(middlewares) = 0 THEN auth
    ELSE Express_processAll(Tail(middlewares),
                            Express_processMiddleware(middlewares[1], auth))

\* ExpressAuthExtractor.extract(middlewares, {routerMiddlewares})
Express_extract(middlewares, routerMiddlewares) ==
    LET allMiddlewares == routerMiddlewares \o middlewares
        auth == Express_processAll(
                    allMiddlewares,
                    [createDefaultAuthorizationInfo EXCEPT !.middlewareChain = allMiddlewares])
    IN [auth EXCEPT !.classification = determineClassification(auth)]

-----------------------------------------------------------------------------
(* core/discovery/express-discoverer.ts *)

EXPRESS_HTTP_METHODS == {"get", "post", "put", "delete", "patch", "options", "head", "all"}

EXPRESS_IDENTIFIERS == {"app", "router", "express"}

\* getCallerName (the same in the Express, Fastify and Koa discoverers):
\* <<name>> for an identifier, <<>> for null
getCallerName(expression) ==
    IF isIdentifier(expression) THEN <<expression.text>> ELSE <<>>

Express_isExpressIdentifier(name) ==
    \/ name \in EXPRESS_IDENTIFIERS
    \/ includes(toLowerCase(name), "router")
    \/ includes(toLowerCase(name), "app")

RECURSIVE spansText(_)
spansText(spans) ==
    IF Len(spans) = 0 THEN "" ELSE ":param" \o spans[1] \o spansText(Tail(spans))

\* extractRoutePath: <<path>> or <<>> for null
Express_extractRoutePath(node) ==
    IF isStringLiteral(node) \/ isNoSubstitutionTemplateLiteral(node) THEN <<node.text>>
    ELSE IF isTemplateExpression(node) THEN <<node.text \o spansText(node.spans)>>
    ELSE <<>>

\* extractMiddlewareName: <<name>> or <<>> for null
RECURSIVE Express_extractMiddlewareName(_)
Express_extractMiddlewareName(node) ==
    IF isIdentifier(node) THEN <<node.text>>
    ELSE IF /\ isCallExpression(node)
            /\ isPropertyAccessExpression(node.expression[1])
            /\ isIdentifier(node.expression[1].expression[1])
         THEN <<node.expression[1].expression[1].text \o "." \o node.expression[1].text>>
    ELSE IF isCallExpression(node) /\ isIdentifier(node.expression[1])
         THEN <<node.expression[1].text>>
    ELSE IF isPropertyAccessExpression(node) THEN <<getText(node)>>
    ELSE IF isArrayLiteralExpression(node)
         THEN LET names == [i \in 1..Len(node.arguments) |->
                               Express_extractMiddlewareName(node.arguments[i])]
                  kept == SelectSeq(names, LAMBDA x : x # <<>> /\ x[1] # "")
              IN <<join([i \in 1..Len(kept) |-> kept[i][1]], ",")>>
    ELSE <<>>

Express_extractMiddlewares(args) ==
    LET nameAt(i) ==
            IF i = 1 /\ (isStringLiteral(args[i]) \/ isTemplateExpression(args[i]))
            THEN <<>>
            ELSE Express_extractMiddlewareName(args[i])
        names == [i \in 1..(Len(args) - 1) |-> nameAt(i)]
        kept == SelectSeq(names, LAMBDA x : x # <<>> /\ x[1] # "")
    IN [i \in 1..Len(kept) |-> kept[i][1]]

\* extractHandlerName (the same in the Express and Fastify discoverers)
extractHandlerName(node) ==
    IF isIdentifier(node) THEN node.text
    ELSE IF isPropertyAccessExpression(node) THEN getText(node)
    ELSE IF isArrowFunction(node) THEN "anonymous"
    ELSE "unknown"

\* path.replace(/\/+/g, '/')
RECURSIVE collapseSlashes(_)
collapseSlashes(path) ==
    IF Len(path) < 2 THEN path
    ELSE IF CharAt(path, 1) = "/" /\ CharAt(path, 2) = "/"
         THEN collapseSlashes(SubSeq(path, 2, Len(path)))
    ELSE CharAt(path, 1) \o collapseSlashes(SubSeq(path, 2, Len(path)))

\* a normalizePath that keeps a trailing slash
Express_normalizePath_keepsTrailingSlash(path) ==
    collapseSlashes(IF ~startsWith(path, "/") THEN "/" \o path ELSE path)

Express_normalizePath(path) ==
    LET p1 == IF ~startsWith(path, "/") THEN "/" \o path ELSE path
        p2 == collapseSlashes(p1)
    IN IF Len(p2) > 1 /\ endsWith(p2, "/") THEN SubSeq(p2, 1, Len(p2) - 1) ELSE p2

\* one iteration of collectRouterMounts' loop
Express_collectRouterMount(reg, callExpr, filePath) ==
    LET propAccess == callExpr.expression[1]
        args == callExpr.arguments
    IN IF ~isPropertyAccessExpression(propAccess) THEN reg
       ELSE IF propAccess.text # "use" THEN reg
       ELSE IF Len(args) < 2 THEN reg
       ELSE IF isStringLiteral(args[1]) /\ isIdentifier(args[2])
       THEN LET appName == IF isIdentifier(propAccess.expression[1])
                           THEN propAccess.expression[1].text
                           ELSE ""
            IN IF appName # ""
               THEN registerRouterMount(reg, filePath, appName, args[1].text, args[2].text)
               ELSE reg
       ELSE reg

RECURSIVE Express_collectRouterMounts(_, _, _)
Express_collectRouterMounts(reg, calls, filePath) ==
    IF Len(calls) = 0 THEN reg
    ELSE Express_collectRouterMounts(
             Express_collectRouterMount(reg, calls[1], filePath), Tail(calls), filePath)

\* processCallExpression: <<endpoint>> or <<>> for null
Express_processCallExpression(reg, callExpr, filePath, line) ==
    LET propAccess == callExpr.expression[1]
        methodName == toLowerCase(propAccess.text)
        callerName == getCallerName(propAccess.expression[1])
        args == callExpr.arguments
        routePath == Express_extractRoutePath(args[1])
        prefix == getRouterPrefix(reg, filePath, callerName[1])
        fullRoute == Express_normalizePath(prefix \o routePath[1])
        middlewares == Express_extractMiddlewares(args)
        handlerName == extractHandlerName(args[Len(args)])
        authorization ==
            Express_extract(middlewares, getAllMiddlewares(reg, filePath, callerName[1]))
        method == parseHttpMethod(toUpperCase(methodName))
    IN IF ~isPropertyAccessExpression(propAccess) THEN <<>>
       ELSE IF methodName \notin EXPRESS_HTTP_METHODS THEN <<>>
       ELSE IF callerName = <<>> \/ ~Express_isExpressIdentifier(callerName[1]) THEN <<>>
       ELSE IF Len(args) = 0 THEN <<>>
       ELSE IF routePath = <<>> \/ routePath[1] = "" THEN <<>>
       ELSE <<createEndpoint(fullRoute,
                             IF method # <<>> THEN method[1] ELSE "GET",
                             handlerName, <<>>, "express",
                             SourceLocation(filePath, line, 1),
                             authorization)>>

\* a discover with one pass: a route sees the mounts written above it
Express_discover_singlePass(reg, file) ==
    LET calls == findCallExpressions(file.statements)
        reg1 == Express_collectRouterMounts(reg, calls, file.filePath)
        found == [i \in 1..Len(calls) |->
                     Express_processCallExpression(
                         Express_collectRouterMounts(reg, SubSeq(calls, 1, i), file.filePath),
                         calls[i], file.filePath, i)]
        kept == SelectSeq(found, LAMBDA e : e # <<>>)
    IN [registry |-> reg1, endpoints |-> [i \in 1..Len(kept) |-> kept[i][1]]]

\* ExpressDiscoverer.discover(file): the registry after the first pass and
\* the endpoints of the second
Express_discover(reg, file) ==
    LET calls == findCallExpressions(file.statements)
        reg1 == Express_collectRouterMounts(reg, calls, file.filePath)
        found == [i \in 1..Len(calls) |->
                     Express_processCallExpression(reg1, calls[i], file.filePath, i)]
        kept == SelectSeq(found, LAMBDA e : e # <<>>)
    IN [registry |-> reg1, endpoints |-> [i \in 1..Len(kept) |-> kept[i][1]]]

-----------------------------------------------------------------------------
(* core/discovery/koa-discoverer.ts *)

KOA_HTTP_METHODS == {"get", "post", "put", "delete", "patch", "options", "head", "all"}

KOA_ROUTER_IDENTIFIERS == {"router", "koaRouter", "apiRouter"}

Koa_AUTH_MIDDLEWARE_PATTERNS ==
    <<"authenticate", "auth", "jwt", "passport", "protect", "guard", "verify">>

Koa_isAuthMiddleware(name) ==
    \E i \in 1..Len(Koa_AUTH_MIDDLEWARE_PATTERNS) :
        matchesAnywhere(Koa_AUTH_MIDDLEWARE_PATTERNS[i], name)

Koa_isKoaRouterIdentifier(name) ==
    \/ name \in KOA_ROUTER_IDENTIFIERS
    \/ includes(toLowerCase(name), "router")
    \/ includes(toLowerCase(name), "koa")

\* extractStringValue (the same in the Fastify and Koa discoverers) and
\* getStringLiteralValue: <<text>> or <<>> for null
extractStringValue(node) ==
    IF isStringLiteral(node) \/ isNoSubstitutionTemplateLiteral(node)
    THEN <<node.text>> ELSE <<>>

\* KoaDiscoverer.extractMiddlewareName and FastifyDiscoverer.extractHookName
extractHookName(node) ==
    IF isIdentifier(node) THEN <<node.text>>
    ELSE IF isPropertyAccessExpression(node) THEN <<getText(node)>>
    ELSE IF isCallExpression(node) /\ isIdentifier(node.expression[1])
         THEN <<node.expression[1].text>>
    ELSE IF isCallExpression(node) /\ isPropertyAccessExpression(node.expression[1])
         THEN <<getText(node.expression[1])>>
    ELSE <<>>

RECURSIVE Koa_markGuards(_, _)
Koa_markGuards(middlewares, auth) ==
    IF Len(middlewares) = 0 THEN auth
    ELSE Koa_markGuards(
             Tail(middlewares),
             IF Koa_isAuthMiddleware(middlewares[1])
             THEN [auth EXCEPT !.isAuthenticated = TRUE,
                               !.guardNames = Append(@, middlewares[1])]
             ELSE auth)

\* a buildAuthorizationInfo that hands the names to the Express extractor
Koa_buildAuthorizationInfo_asExpress(middlewares) == Express_extract(middlewares, <<>>)

Koa_buildAuthorizationInfo(middlewares) ==
    LET auth == Koa_markGuards(
                    middlewares,
                    [createDefaultAuthorizationInfo EXCEPT !.middlewareChain = middlewares])
    IN [auth EXCEPT !.classification = determineClassification(auth)]

Koa_normalizePath(path) ==
    LET p1 == IF ~startsWith(path, "/") THEN "/" \o path ELSE path
        p2 == collapseSlashes(p1)
    IN IF Len(p2) > 1 /\ endsWith(p2, "/") THEN SubSeq(p2, 1, Len(p2) - 1) ELSE p2

Koa_processRouteCall(callExpr, filePath, line) ==
    LET propAccess == callExpr.expression[1]
        methodName == toLowerCase(propAccess.text)
        callerName == getCallerName(propAccess.expression[1])
        args == callExpr.arguments
        routePath == extractStringValue(args[1])
        names == [i \in 1..Len(args) |-> IF i = 1 THEN <<>> ELSE extractHookName(args[i])]
        inner == SelectSeq(SubSeq(names, 2, Len(args) - 1), LAMBDA x : x # <<>> /\ x[1] # "")
        middlewares == [i \in 1..Len(inner) |-> inner[i][1]]
        handlerName == IF Len(args) >= 2 /\ names[Len(args)] # <<>>
                       THEN names[Len(args)][1] ELSE "anonymous"
        method == parseHttpMethod(toUpperCase(methodName))
    IN IF ~isPropertyAccessExpression(propAccess) THEN <<>>
       ELSE IF methodName \notin KOA_HTTP_METHODS THEN <<>>
       ELSE IF callerName = <<>> \/ ~Koa_isKoaRouterIdentifier(callerName[1]) THEN <<>>
       ELSE IF Len(args) = 0 THEN <<>>
       ELSE IF routePath = <<>> \/ routePath[1] = "" THEN <<>>
       ELSE <<createEndpoint(Koa_normalizePath(routePath[1]),
                             IF method # <<>> THEN method[1] ELSE "GET",
                             handlerName, <<>>, "koa",
                             SourceLocation(filePath, line, 1),
                             Koa_buildAuthorizationInfo(middlewares))>>

Koa_discover(file) ==
    LET calls == findCallExpressions(file.statements)
        found == [i \in 1..Len(calls) |-> Koa_processRouteCall(calls[i], file.filePath, i)]
        kept == SelectSeq(found, LAMBDA e : e # <<>>)
    IN [i \in 1..Len(kept) |-> kept[i][1]]

-----------------------------------------------------------------------------
(* core/discovery/fastify-discoverer.ts *)

FASTIFY_HTTP_METHODS == {"get", "post", "put", "delete", "patch", "options", "head", "all"}

FASTIFY_IDENTIFIERS == {"fastify", "server", "app", "instance"}

AUTH_HOOK_PATTERNS == <<"authenticate", "verify", "jwt", "auth", "guard", "protected">>

Fastify_isAuthHook(hookName) ==
    \E i \in 1..Len(AUTH_HOOK_PATTERNS) : matchesAnywhere(AUTH_HOOK_PATTERNS[i], hookName)

Fastify_isFastifyIdentifier(name) ==
    \/ toLowerCase(name) \in FASTIFY_IDENTIFIERS
    \/ includes(toLowerCase(name), "fastify")

RECURSIVE Fastify_markGuards(_, _)
Fastify_markGuards(hooks, auth) ==
    IF Len(hooks) = 0 THEN auth
    ELSE Fastify_markGuards(
             Tail(hooks),
             IF Fastify_isAuthHook(hooks[1])
             THEN [auth EXCEPT !.isAuthenticated = TRUE,
                               !.guardNames = Append(@, hooks[1])]
             ELSE auth)

\* extractHooksAuth(node, sourceFile, auth): auth as the call leaves it
Fastify_extractHooksAuth(node, auth) ==
    LET names == IF isArrayLiteralExpression(node)
                 THEN [i \in 1..Len(node.arguments) |-> extractHookName(node.arguments[i])]
                 ELSE <<extractHookName(node)>>
        kept == SelectSeq(names, LAMBDA x : x # <<>> /\ x[1] # "")
        hooks == [i \in 1..Len(kept) |-> kept[i][1]]
    IN Fastify_markGuards(hooks, [auth EXCEPT !.middlewareChain = @ \o hooks])

RECURSIVE Fastify_hooksOfProperties(_, _)
Fastify_hooksOfProperties(props, auth) ==
    IF Len(props) = 0 THEN auth
    ELSE Fastify_hooksOfProperties(
             Tail(props),
             IF isPropertyAssignment(props[1]) /\ props[1].text \in {"preHandler", "onRequest"}
             THEN Fastify_extractHooksAuth(props[1].expression[1], auth)
             ELSE auth)

Fastify_extractAuthFromOptions(options) ==
    Fastify_hooksOfProperties(options.arguments, createDefaultAuthorizationInfo)

Fastify_normalizePath(path) ==
    LET p1 == IF ~startsWith(path, "/") THEN "/" \o path ELSE path
        p2 == collapseSlashes(p1)
    IN IF Len(p2) > 1 /\ endsWith(p2, "/") THEN SubSeq(p2, 1, Len(p2) - 1) ELSE p2

Fastify_processShorthandRoute(callExpr, filePath, line) ==
    LET propAccess == callExpr.expression[1]
        methodName == toLowerCase(propAccess.text)
        callerName == getCallerName(propAccess.expression[1])
        args == callExpr.arguments
        routePath == extractStringValue(args[1])
        withOptions == Len(args) >= 2 /\ isObjectLiteralExpression(args[2])
        handlerName ==
            IF withOptions
            THEN (IF Len(args) >= 3 THEN extractHandlerName(args[3]) ELSE "anonymous")
            ELSE IF Len(args) >= 2 THEN extractHandlerName(args[2])
            ELSE "anonymous"
        auth == IF withOptions THEN Fastify_extractAuthFromOptions(args[2])
                ELSE createDefaultAuthorizationInfo
        authorization == [auth EXCEPT !.classification = determineClassification(auth)]
        method == parseHttpMethod(toUpperCase(methodName))
    IN IF ~isPropertyAccessExpression(propAccess) THEN <<>>
       ELSE IF methodName \notin FASTIFY_HTTP_METHODS THEN <<>>
       ELSE IF callerName = <<>> \/ ~Fastify_isFastifyIdentifier(callerName[1]) THEN <<>>
       ELSE IF Len(args) = 0 THEN <<>>
       ELSE IF routePath = <<>> \/ routePath[1] = "" THEN <<>>
       ELSE <<createEndpoint(Fastify_normalizePath(routePath[1]),
                             IF method # <<>> THEN method[1] ELSE "GET",
                             handlerName, <<>>, "fastify",
                             SourceLocation(filePath, line, 1),
                             authorization)>>

\* the loop of processRouteMethod over the object literal's properties;
\* acc holds method and url (<<>> for null), handlerName and authorization
RECURSIVE Fastify_routeProperties(_, _)
Fastify_routeProperties(props, acc) ==
    IF Len(props) = 0 THEN acc
    ELSE LET prop == props[1]
             init == prop.expression[1]
             methodStr == extractStringValue(init)
             a1 == IF prop.text = "method" /\ methodStr # <<>> /\ methodStr[1] # ""
                   THEN [acc EXCEPT !.method = parseHttpMethod(toUpperCase(methodStr[1]))]
                   ELSE acc
             a2 == IF prop.text = "url"
                   THEN [a1 EXCEPT !.url = extractStringValue(init)] ELSE a1
             a3 == IF prop.text = "handler"
                   THEN [a2 EXCEPT !.handlerName = extractHandlerName(init)] ELSE a2
             a4 == IF prop.text \in {"preHandler", "onRequest"}
                   THEN [a3 EXCEPT !.authorization = Fastify_extractHooksAuth(init, @)]
                   ELSE a3
         IN Fastify_routeProperties(Tail(props),
                                    IF isPropertyAssignment(prop) THEN a4 ELSE acc)

\* a processRouteMethod that falls back to GET and to the root path
Fastify_processRouteMethod_withDefaults(callExpr, filePath, line) ==
    LET propAccess == callExpr.expression[1]
        callerName == getCallerName(propAccess.expression[1])
        args == callExpr.arguments
        acc == Fastify_routeProperties(
                   args[1].arguments,
                   [method |-> <<>>, url |-> <<>>, handlerName |-> "handler",
                    authorization |-> createDefaultAuthorizationInfo])
        authorization ==
            [acc.authorization EXCEPT
                !.classification = determineClassification(acc.authorization)]
    IN IF ~isPropertyAccessExpression(propAccess) THEN <<>>
       ELSE IF propAccess.text # "route" THEN <<>>
       ELSE IF callerName = <<>> \/ ~Fastify_isFastifyIdentifier(callerName[1]) THEN <<>>
       ELSE IF Len(args) = 0 \/ ~isObjectLiteralExpression(args[1]) THEN <<>>
       ELSE <<createEndpoint(Fastify_normalizePath(IF acc.url # <<>> THEN acc.url[1] ELSE ""),
                             IF acc.method # <<>> THEN acc.method[1] ELSE "GET",
                             acc.handlerName, <<>>, "fastify",
                             SourceLocation(filePath, line, 1),
                             authorization)>>

Fastify_processRouteMethod(callExpr, filePath, line) ==
    LET propAccess == callExpr.expression[1]
        callerName == getCallerName(propAccess.expression[1])
        args == callExpr.arguments
        acc == Fastify_routeProperties(
                   args[1].arguments,
                   [method |-> <<>>, url |-> <<>>, handlerName |-> "handler",
                    authorization |-> createDefaultAuthorizationInfo])
        authorization ==
            [acc.authorization EXCEPT
                !.classification = determineClassification(acc.authorization)]
    IN IF ~isPropertyAccessExpression(propAccess) THEN <<>>
       ELSE IF propAccess.text # "route" THEN <<>>
       ELSE IF callerName = <<>> \/ ~Fastify_isFastifyIdentifier(callerName[1]) THEN <<>>
       ELSE IF Len(args) = 0 \/ ~isObjectLiteralExpression(args[1]) THEN <<>>
       ELSE IF acc.method = <<>> \/ acc.url = <<>> \/ acc.url[1] = "" THEN <<>>
       ELSE <<createEndpoint(Fastify_normalizePath(acc.url[1]),
                             acc.method[1],
                             acc.handlerName, <<>>, "fastify",
                             SourceLocation(filePath, line, 1),
                             authorization)>>

Fastify_discover(file) ==
    LET calls == findCallExpressions(file.statements)
        found == [i \in 1..Len(calls) |->
                     LET shorthandEndpoint ==
                             Fastify_processShorthandRoute(calls[i], file.filePath, i)
                     IN IF shorthandEndpoint # <<>> THEN shorthandEndpoint
                        ELSE Fastify_processRouteMethod(calls[i], file.filePath, i)]
        kept == SelectSeq(found, LAMBDA e : e # <<>>)
    IN [i \in 1..Len(kept) |-> kept[i][1]]

-----------------------------------------------------------------------------
(* core/analysis/source-file-loader.ts: decorator helpers *)

\* getDecoratorName: <<name>> or <<>> for null
getDecoratorName(decorator) ==
    IF isIdentifier(decorator) THEN <<decorator.text>>
    ELSE IF isCallExpression(decorator) /\ isIdentifier(decorator.expression[1])
         THEN <<decorator.expression[1].text>>
    ELSE <<>>

getDecoratorArguments(decorator) ==
    IF isCallExpression(decorator) THEN decorator.arguments ELSE <<>>

getStringLiteralValue(node) == extractStringValue(node)

getArrayLiteralElements(node) ==
    IF isArrayLiteralExpression(node) THEN node.arguments ELSE <<>>

-----------------------------------------------------------------------------
(* core/authorization/nestjs-auth-extractor.ts *)

AUTH_GUARD_PATTERNS ==
    <<"AuthGuard", "JwtAuthGuard", "LocalAuthGuard", "SessionGuard", "BearerGuard",
      "TokenGuard">>

PUBLIC_DECORATORS == {"Public", "AllowAnonymous", "SkipAuth", "NoAuth", "IsPublic"}

ROLE_DECORATORS == {"Roles", "RequireRoles", "HasRoles", "Authorize"}

POLICY_DECORATORS == {"Policies", "RequirePolicies", "CheckPolicies"}

NestJS_isAuthGuard(guardName) ==
    \E i \in 1..Len(AUTH_GUARD_PATTERNS) : matchesAnywhere(AUTH_GUARD_PATTERNS[i], guardName)

\* the class-level guards of extract: only a guard that matches is recorded
RECURSIVE NestJS_applyClassGuards(_, _)
NestJS_applyClassGuards(guards, auth) ==
    IF Len(guards) = 0 THEN auth
    ELSE NestJS_applyClassGuards(
             Tail(guards),
             IF NestJS_isAuthGuard(guards[1])
             THEN [auth EXCEPT !.isAuthenticated = TRUE,
                               !.guardNames = Append(@, guards[1])]
             ELSE auth)

\* one argument of a method-level @UseGuards
NestJS_useGuardsArgument(arg, auth) ==
    LET guardName == IF isIdentifier(arg) THEN <<arg.text>>
                     ELSE IF isCallExpression(arg) /\ isIdentifier(arg.expression[1])
                          THEN <<arg.expression[1].text>>
                     ELSE <<>>
    IN IF guardName = <<>> THEN auth
       ELSE [auth EXCEPT
                !.isAuthenticated = @ \/ NestJS_isAuthGuard(guardName[1]),
                !.guardNames = Append(@, guardName[1])]

\* the strings one argument of a role or policy decorator contributes:
\* the argument itself if it is a non-empty string literal, then the
\* non-empty string literals among its elements if it is an array literal
NestJS_literalsOfArgument(arg) ==
    LET value == getStringLiteralValue(arg)
        own == IF value # <<>> /\ value[1] # "" THEN value ELSE <<>>
        elems == getArrayLiteralElements(arg)
        vals == [i \in 1..Len(elems) |-> getStringLiteralValue(elems[i])]
        kept == SelectSeq(vals, LAMBDA v : v # <<>> /\ v[1] # "")
    IN own \o [i \in 1..Len(kept) |-> kept[i][1]]

RECURSIVE NestJS_literalsOfArguments(_)
NestJS_literalsOfArguments(args) ==
    IF Len(args) = 0 THEN <<>>
    ELSE NestJS_literalsOfArgument(args[1]) \o NestJS_literalsOfArguments(Tail(args))

RECURSIVE NestJS_useGuardsArguments(_, _)
NestJS_useGuardsArguments(args, auth) ==
    IF Len(args) = 0 THEN auth
    ELSE NestJS_useGuardsArguments(Tail(args), NestJS_useGuardsArgument(args[1], auth))

\* a processDecorator whose role and policy decorators leave isAuthenticated
\* as it was
NestJS_processDecorator_keepsAuth(decorator, auth) ==
    LET name == getDecoratorName(decorator)
        args == getDecoratorArguments(decorator)
        lits == NestJS_literalsOfArguments(args)
    IN IF name = <<>> \/ name[1] = "" THEN auth
       ELSE IF name[1] \in PUBLIC_DECORATORS
       THEN [auth EXCEPT !.isExplicitlyPublic = TRUE]
       ELSE IF name[1] = "UseGuards" THEN NestJS_useGuardsArguments(args, auth)
       ELSE IF name[1] \in ROLE_DECORATORS THEN [auth EXCEPT !.roles = @ \o lits]
       ELSE IF name[1] \in POLICY_DECORATORS THEN [auth EXCEPT !.policies = @ \o lits]
       ELSE auth

NestJS_processDecorator(decorator, auth) ==
    LET name == getDecoratorName(decorator)
        args == getDecoratorArguments(decorator)
        lits == NestJS_literalsOfArguments(args)
    IN IF name = <<>> \/ name[1] = "" THEN auth
       ELSE IF name[1] \in PUBLIC_DECORATORS
       THEN [auth EXCEPT !.isExplicitlyPublic = TRUE]
       ELSE IF name[1] = "UseGuards" THEN NestJS_useGuardsArguments(args, auth)
       ELSE IF name[1] \in ROLE_DECORATORS
       THEN [auth EXCEPT !.roles = @ \o lits,
                         !.isAuthenticated = @ \/ Len(lits) > 0]
       ELSE IF name[1] \in POLICY_DECORATORS
       THEN [auth EXCEPT !.policies = @ \o lits,
                         !.isAuthenticated = @ \/ Len(lits) > 0]
       ELSE auth

RECURSIVE NestJS_processDecorators(_, _)
NestJS_processDecorators(decorators, auth) ==
    IF Len(decorators) = 0 THEN auth
    ELSE NestJS_processDecorators(Tail(decorators),
                                  NestJS_processDecorator(decorators[1], auth))

\* an extract in which a method-level public marker clears isAuthenticated
NestJS_extract_publicClearsAuth(decorators, context) ==
    LET a1 == NestJS_applyClassGuards(context.classGuards, createDefaultAuthorizationInfo)
        a2 == [a1 EXCEPT !.roles = @ \o context.classRoles,
                         !.isAuthenticated = @ \/ Len(context.classRoles) > 0]
        a3 == [a2 EXCEPT !.isExplicitlyPublic = @ \/ context.isPublic]
        a4 == NestJS_processDecorators(decorators, a3)
        hasMethodPublic ==
            \E i \in 1..Len(decorators) :
                LET name == getDecoratorName(decorators[i])
                IN name # <<>> /\ name[1] \in PUBLIC_DECORATORS
        a5 == [a4 EXCEPT !.isExplicitlyPublic = @ \/ hasMethodPublic,
                         !.isAuthenticated = @ /\ ~hasMethodPublic]
    IN [a5 EXCEPT !.classification = determineClassification(a5)]

\* NestJSAuthExtractor.extract(decorators, {classGuards, classRoles, isPublic})
NestJS_extract(decorators, context) ==
    LET a1 == NestJS_applyClassGuards(context.classGuards, createDefaultAuthorizationInfo)
        a2 == [a1 EXCEPT !.roles = @ \o context.classRoles,
                         !.isAuthenticated = @ \/ Len(context.classRoles) > 0]
        a3 == [a2 EXCEPT !.isExplicitlyPublic = @ \/ context.isPublic]
        a4 == NestJS_processDecorators(decorators, a3)
        hasMethodPublic ==
            \E i \in 1..Len(decorators) :
                LET name == getDecoratorName(decorators[i])
                IN name # <<>> /\ name[1] \in PUBLIC_DECORATORS
        a5 == [a4 EXCEPT !.isExplicitlyPublic = @ \/ hasMethodPublic]
    IN [a5 EXCEPT !.classification = determineClassification(a5)]

-----------------------------------------------------------------------------
(* core/authorization/global-auth-analyzer.ts *)

\* the GlobalAuthConfig analyze starts from; <<>> stands for an absent name
NewGlobalAuthConfig ==
    [hasGlobalGuard |-> FALSE, globalGuardName |-> <<>>,
     hasGlobalPrefix |-> FALSE, globalPrefix |-> <<>>]

\* the loop over the properties of { provide: APP_GUARD, useClass: Guard };
\* acc holds hasAppGuard and guardName (<<>> for undefined)
RECURSIVE GlobalAuth_providerProperties(_, _)
GlobalAuth_providerProperties(props, acc) ==
    IF Len(props) = 0 THEN acc
    ELSE LET prop == props[1]
             init == prop.expression[1]
             a1 == IF prop.text = "provide" /\ isIdentifier(init) /\ init.text = "APP_GUARD"
                   THEN [acc EXCEPT !.hasAppGuard = TRUE] ELSE acc
             a2 == IF prop.text = "useClass" /\ isIdentifier(init)
                   THEN [a1 EXCEPT !.guardName = <<init.text>>] ELSE a1
         IN GlobalAuth_providerProperties(Tail(props),
                                          IF isPropertyAssignment(prop) THEN a2 ELSE acc)

\* one iteration of analyzeFile's loop over the call expressions
GlobalAuth_analyzeCall(callExpr, config) ==
    LET propAccess == callExpr.expression[1]
        args == callExpr.arguments
        methodName == propAccess.text
        c1 == IF isPropertyAccessExpression(propAccess) /\ methodName = "useGlobalGuards"
              THEN [config EXCEPT
                       !.hasGlobalGuard = TRUE,
                       !.globalGuardName =
                           IF /\ Len(args) > 0
                              /\ isNewExpression(args[1])
                              /\ isIdentifier(args[1].expression[1])
                           THEN <<args[1].expression[1].text>> ELSE @]
              ELSE config
        c2 == IF isPropertyAccessExpression(propAccess) /\ methodName = "setGlobalPrefix"
              THEN [c1 EXCEPT
                       !.hasGlobalPrefix = TRUE,
                       !.globalPrefix =
                           IF Len(args) > 0 /\ isStringLiteral(args[1])
                           THEN <<args[1].text>> ELSE @]
              ELSE c1
        provider == GlobalAuth_providerProperties(
                        args[1].arguments, [hasAppGuard |-> FALSE, guardName |-> <<>>])
    IN IF Len(args) > 0 /\ isObjectLiteralExpression(args[1])
       THEN (IF provider.hasAppGuard /\ provider.guardName # <<>>
                   /\ provider.guardName[1] # ""
             THEN [c2 EXCEPT !.hasGlobalGuard = TRUE,
                             !.globalGuardName = provider.guardName]
             ELSE c2)
       ELSE c2

RECURSIVE GlobalAuth_analyzeCalls(_, _)
GlobalAuth_analyzeCalls(calls, config) ==
    IF Len(calls) = 0 THEN config
    ELSE GlobalAuth_analyzeCalls(Tail(calls), GlobalAuth_analyzeCall(calls[1], config))

\* analyzeFile(file, config): config as the call leaves it
GlobalAuth_analyzeFile(file, config) ==
    GlobalAuth_analyzeCalls(findCallExpressions(file.statements), config)

\* GlobalAuthAnalyzer.analyze(files)
RECURSIVE GlobalAuth_analyzeFrom(_, _)
GlobalAuth_analyzeFrom(files, config) ==
    IF Len(files) = 0 THEN config
    ELSE GlobalAuth_analyzeFrom(Tail(files), GlobalAuth_analyzeFile(files[1], config))

GlobalAuth_analyze(files) == GlobalAuth_analyzeFrom(files, NewGlobalAuthConfig)

-----------------------------------------------------------------------------
(* core/discovery/nestjs-discoverer.ts *)

\* NESTJS_HTTP_DECORATORS: <<method>> for a verb decorator name, else <<>>
NESTJS_HTTP_DECORATORS(name) ==
    CASE name = "Get" -> <<"GET">>
      [] name = "Post" -> <<"POST">>
      [] name = "Put" -> <<"PUT">>
      [] name = "Delete" -> <<"DELETE">>
      [] name = "Patch" -> <<"PATCH">>
      [] name = "Options" -> <<"OPTIONS">>
      [] name = "Head" -> <<"HEAD">>
      [] name = "All" -> <<"ALL">>
      [] OTHER -> <<>>

\* extractControllerPath and extractRoutePath: the first argument's string
\* value, '' when there is none
NestJS_extractPath(decorator) ==
    LET args == getDecoratorArguments(decorator)
    IN IF Len(args) = 0 THEN ""
       ELSE LET path == getStringLiteralValue(args[1])
            IN IF path # <<>> THEN path[1] ELSE ""

NestJS_buildRoute(controllerPath, methodPath) ==
    LET r1 == IF controllerPath # ""
              THEN (IF startsWith(controllerPath, "/") THEN controllerPath
                    ELSE "/" \o controllerPath)
              ELSE "/"
        normalizedMethodPath == IF startsWith(methodPath, "/") THEN methodPath
                                ELSE "/" \o methodPath
        r2 == IF methodPath # ""
              THEN (IF r1 = "/" THEN normalizedMethodPath ELSE r1 \o normalizedMethodPath)
              ELSE r1
        r3 == collapseSlashes(r2)
        r4 == IF ~startsWith(r3, "/") THEN "/" \o r3 ELSE r3
    IN IF Len(r4) > 1 /\ endsWith(r4, "/") THEN SubSeq(r4, 1, Len(r4) - 1) ELSE r4

\* one iteration of extractClassAuthInfo's loop
NestJS_classAuthOfDecorator(decorator, info) ==
    LET name == getDecoratorName(decorator)
        args == getDecoratorArguments(decorator)
        idents == SelectSeq(args, isIdentifier)
        vals == [i \in 1..Len(args) |-> getStringLiteralValue(args[i])]
        strs == SelectSeq(vals, LAMBDA v : v # <<>> /\ v[1] # "")
    IN IF name = <<>> THEN info
       ELSE IF name[1] = "UseGuards"
       THEN [info EXCEPT !.guards = @ \o [i \in 1..Len(idents) |-> idents[i].text]]
       ELSE IF name[1] = "Roles"
       THEN [info EXCEPT !.roles = @ \o [i \in 1..Len(strs) |-> strs[i][1]]]
       ELSE IF name[1] \in {"Public", "AllowAnonymous", "SkipAuth"}
       THEN [info EXCEPT !.isPublic = TRUE]
       ELSE info

RECURSIVE NestJS_classAuthOfDecorators(_, _)
NestJS_classAuthOfDecorators(decorators, info) ==
    IF Len(decorators) = 0 THEN info
    ELSE NestJS_classAuthOfDecorators(Tail(decorators),
                                      NestJS_classAuthOfDecorator(decorators[1], info))

NestJS_extractClassAuthInfo(decorators) ==
    NestJS_classAuthOfDecorators(decorators,
                                 [guards |-> <<>>, roles |-> <<>>, isPublic |-> FALSE])

\* processMethod: <<endpoint>> or <<>> for null
NestJS_processMethod(methodNode, filePath, controllerPath, controllerName, classAuth, location) ==
    LET decorators == methodNode.decorators
        isVerb(d) == LET name == getDecoratorName(d)
                     IN name # <<>> /\ NESTJS_HTTP_DECORATORS(name[1]) # <<>>
        verbs == SelectSeq(decorators, isVerb)
        httpMethod == NESTJS_HTTP_DECORATORS(getDecoratorName(verbs[1])[1])[1]
        routePath == NestJS_extractPath(verbs[1])
        fullRoute == NestJS_buildRoute(controllerPath, routePath)
        authorization ==
            NestJS_extract(decorators,
                           [classGuards |-> classAuth.guards,
                            classRoles |-> classAuth.roles,
                            isPublic |-> classAuth.isPublic])
    IN IF Len(verbs) = 0 THEN <<>>
       ELSE <<createEndpoint(fullRoute, httpMethod, methodNode.text, <<controllerName>>,
                             "nestjs", location, authorization)>>

\* processClass; line is the rank of the class among the file's statements
NestJS_processClass(classNode, filePath, line) ==
    LET decorators == classNode.decorators
        controllers == SelectSeq(decorators,
                                 LAMBDA d : getDecoratorName(d) = <<"Controller">>)
        controllerPath == NestJS_extractPath(controllers[1])
        controllerName == IF classNode.text # "" THEN classNode.text ELSE "UnknownController"
        classAuth == NestJS_extractClassAuthInfo(decorators)
        members == classNode.arguments
        found == [i \in 1..Len(members) |->
                     IF isMethodDeclaration(members[i])
                     THEN NestJS_processMethod(members[i], filePath, controllerPath,
                                               controllerName, classAuth,
                                               SourceLocation(filePath, line, i + 1))
                     ELSE <<>>]
        kept == SelectSeq(found, LAMBDA e : e # <<>>)
    IN IF Len(controllers) = 0 THEN <<>>
       ELSE [i \in 1..Len(kept) |-> kept[i][1]]

RECURSIVE NestJS_discoverFrom(_, _, _)
NestJS_discoverFrom(statements, filePath, line) ==
    IF Len(statements) = 0 THEN <<>>
    ELSE (IF isClassDeclaration(statements[1])
          THEN NestJS_processClass(statements[1], filePath, line)
          ELSE <<>>)
         \o NestJS_discoverFrom(Tail(statements), filePath, line + 1)

\* a discover that merges the global guard of the file into its endpoints
NestJS_discover_withGlobalGuard(file) ==
    LET found == NestJS_discoverFrom(file.statements, file.filePath, 1)
        config == GlobalAuth_analyzeFile(file, NewGlobalAuthConfig)
        guarded(e) ==
            LET auth == [e.authorization EXCEPT
                            !.isAuthenticated = TRUE,
                            !.guardNames = @ \o config.globalGuardName]
            IN [e EXCEPT !.authorization =
                             [auth EXCEPT !.classification = determineClassification(auth)]]
    IN IF config.hasGlobalGuard THEN [i \in 1..Len(found) |-> guarded(found[i])]
       ELSE found

NestJS_discover(file) == NestJS_discoverFrom(file.statements, file.filePath, 1)

-----------------------------------------------------------------------------
(* rules *)

\* createFinding: suppressed defaults to false, suppressionReason (<<>> for
\* undefined) to undefined
createFinding(ruleId, ruleName, severity, message, endpoint, location, recommendation) ==
    [ruleId |-> ruleId,
     ruleName |-> ruleName,
     severity |-> severity,
     message |-> message,
     endpoint |-> endpoint,
     location |-> location,
     recommendation |-> recommendation,
     suppressed |-> FALSE,
     suppressionReason |-> <<>>]

\* AP001 PublicWithoutExplicitIntent
AP001_getRecommendation(endpoint) ==
    CASE endpoint.type = "express" ->
            "Add authentication middleware (e.g., passport.authenticate) or "
            \o "mark as explicitly public with allowAnonymous middleware if intentional."
      [] endpoint.type = "nestjs" ->
            "Add @UseGuards(AuthGuard) to require authentication, or "
            \o "add @Public() decorator if public access is intentional."
      [] endpoint.type = "fastify" ->
            "Add preHandler hook for authentication or "
            \o "mark as explicitly public if intentional."
      [] endpoint.type = "koa" ->
            "Add authentication middleware or mark as explicitly public if intentional."
      [] OTHER -> "Add authentication or mark as explicitly public if intentional."

\* an AP001 that looks at the middleware chain instead of the guards
AP001_evaluate_needsNoMiddleware(endpoint) ==
    LET auth == endpoint.authorization
    IN IF /\ auth.classification = "public"
          /\ ~auth.isExplicitlyPublic
          /\ ~auth.isAuthenticated
          /\ Len(auth.middlewareChain) > 0
       THEN <<createFinding("AP001", "Public without explicit intent", "high",
                  endpoint.method \o " " \o endpoint.route
                      \o " is publicly accessible without explicit intent",
                  endpoint, endpoint.location, AP001_getRecommendation(endpoint))>>
       ELSE <<>>

AP001_evaluate(endpoint) ==
    LET auth == endpoint.authorization
    IN IF /\ auth.classification = "public"
          /\ ~auth.isExplicitlyPublic
          /\ ~auth.isAuthenticated
          /\ Len(auth.guardNames) = 0
       THEN <<createFinding("AP001", "Public without explicit intent", "high",
                  endpoint.method \o " " \o endpoint.route
                      \o " is publicly accessible without explicit intent",
                  endpoint, endpoint.location, AP001_getRecommendation(endpoint))>>
       ELSE <<>>

\* AP002 AllowAnonymousOnWrite
AP002_getRecommendation(endpoint) ==
    "Write operations like " \o endpoint.method \o " typically require authentication. "
    \o "If public access is truly needed (e.g., user registration, contact form), "
    \o "consider adding rate limiting and input validation. "
    \o "Otherwise, remove the public marker and add authentication."

AP002_evaluate(endpoint) ==
    LET auth == endpoint.authorization
    IN IF isWriteMethod(endpoint.method) /\ auth.isExplicitlyPublic
       THEN <<createFinding("AP002", "AllowAnonymous on write operation", "high",
                  endpoint.method \o " " \o endpoint.route
                      \o " is a write operation explicitly marked as public",
                  endpoint, endpoint.location, AP002_getRecommendation(endpoint))>>
       ELSE <<>>

\* AP003 ControllerActionConflict
AP003_evaluate(endpoint) ==
    LET auth == endpoint.authorization
    IN IF endpoint.type # "nestjs" THEN <<>>
       ELSE IF auth.isAuthenticated /\ auth.isExplicitlyPublic
       THEN <<createFinding("AP003", "Controller/action authorization conflict", "medium",
                  endpoint.method \o " " \o endpoint.route
                      \o " has @Public overriding class-level guards",
                  endpoint, endpoint.location,
                  "This endpoint has @Public decorator that overrides class-level @UseGuards. "
                  \o "Ensure this is intentional. If the endpoint should be public, consider "
                  \o "documenting why. If not, remove the @Public decorator.")>>
       ELSE <<>>

\* AP004 MissingAuthOnWrites
AP004_getRecommendation(endpoint) ==
    CASE endpoint.type = "express" ->
            "CRITICAL: Add authentication middleware immediately. "
            \o "Example: router.post(\"/path\", passport.authenticate(\"jwt\"), handler)"
      [] endpoint.type = "nestjs" ->
            "CRITICAL: Add @UseGuards(AuthGuard) decorator immediately. "
            \o "If this endpoint must be public, add @Public() to make intent explicit."
      [] endpoint.type = "fastify" ->
            "CRITICAL: Add authentication via preHandler hook. "
            \o "Example: { preHandler: [fastify.authenticate] }"
      [] endpoint.type = "koa" ->
            "CRITICAL: Add authentication middleware before the route handler."
      [] OTHER -> "CRITICAL: Add authentication to this write endpoint immediately."

AP004_evaluate(endpoint) ==
    LET auth == endpoint.authorization
    IN IF /\ isWriteMethod(endpoint.method)
          /\ auth.classification = "public"
          /\ ~auth.isAuthenticated
          /\ ~auth.isExplicitlyPublic
       THEN <<createFinding("AP004", "Missing authentication on write operations",
                  "critical",
                  endpoint.method \o " " \o endpoint.route
                      \o " is an unprotected write operation",
                  endpoint, endpoint.location, AP004_getRecommendation(endpoint))>>
       ELSE <<>>

\* AP005 ExcessiveRoleAccess
maxRoles == 3

\* an AP005 that fires from maxRoles roles on
AP005_evaluate_fromMaxRoles(endpoint) ==
    IF Len(endpoint.authorization.roles) >= maxRoles
    THEN <<createFinding("AP005", "Excessive role access", "low",
               endpoint.method \o " " \o endpoint.route \o " allows too many roles",
               endpoint, endpoint.location, "Reduce the number of roles.")>>
    ELSE <<>>

AP005_evaluate(endpoint) ==
    LET roles == endpoint.authorization.roles
    IN IF Len(roles) > maxRoles
       THEN <<createFinding("AP005", "Excessive role access", "low",
                  endpoint.method \o " " \o endpoint.route \o " allows "
                      \o ToString(Len(roles)) \o " roles: " \o join(roles, ", "),
                  endpoint, endpoint.location,
                  "This endpoint allows " \o ToString(Len(roles))
                  \o " different roles which may indicate "
                  \o "overly permissive access. Consider: (1) Creating a permission-based system "
                  \o "instead of role-based, (2) Creating role hierarchies, or (3) Using policies "
                  \o "to combine related access patterns.")>>
       ELSE <<>>

\* AP006 WeakRoleNaming; each pattern is /^word$/i
weakPatterns ==
    <<"user", "admin", "guest", "member", "moderator", "manager", "superuser", "root",
      "default", "basic", "standard", "premium", "vip">>

AP006_evaluate(endpoint) ==
    LET roles == endpoint.authorization.roles
        isWeak(role) == \E i \in 1..Len(weakPatterns) : matchesExact(weakPatterns[i], role)
        weakRoles == SelectSeq(roles, isWeak)
    IN IF Len(weakRoles) > 0
       THEN <<createFinding("AP006", "Weak role naming", "low",
                  endpoint.method \o " " \o endpoint.route
                      \o " uses generic role names: " \o join(weakRoles, ", "),
                  endpoint, endpoint.location,
                  "Consider using more descriptive role names that indicate specific permissions "
                  \o "or responsibilities. Instead of \"" \o weakRoles[1]
                  \o "\", consider names like "
                  \o "\"billing-admin\", \"content-editor\", \"inventory-manager\", "
                  \o "or \"read-only-analyst\".")>>
       ELSE <<>>

\* AP007 SensitiveRouteKeywords
sensitiveKeywords ==
    <<"admin", "debug", "internal", "export", "import", "backup", "config", "settings",
      "system", "management", "dashboard", "metrics", "logs", "audit", "secret",
      "private", "hidden", "test", "dev", "staging">>

AP007_evaluate(endpoint) ==
    LET auth == endpoint.authorization
        routeLower == toLowerCase(endpoint.route)
        foundKeywords == SelectSeq(sensitiveKeywords, LAMBDA kw : includes(routeLower, kw))
    IN IF auth.classification # "public" THEN <<>>
       ELSE IF Len(foundKeywords) > 0
       THEN <<createFinding("AP007", "Sensitive route keywords", "medium",
                  endpoint.method \o " " \o endpoint.route
                      \o " is public but contains sensitive keywords: "
                      \o join(foundKeywords, ", "),
                  endpoint, endpoint.location,
                  "Routes containing \"" \o foundKeywords[1]
                  \o "\" typically indicate sensitive functionality "
                  \o "that should require authentication. Add authentication middleware or guards, "
                  \o "or rename the route if it is truly meant to be public.")>>
       ELSE <<>>

\* AP008 UnprotectedEndpoint
AP008_getRecommendation(endpoint) ==
    CASE endpoint.type = "express" ->
            "This endpoint has no middleware. Consider adding: "
            \o "(1) Authentication middleware, (2) Rate limiting, (3) Input validation, "
            \o "(4) Request logging. Example: app.get(\"/path\", auth, validate, handler)"
      [] endpoint.type = "nestjs" ->
            "This endpoint has no guards or interceptors. Consider adding: "
            \o "(1) @UseGuards() for authentication, (2) @UseInterceptors() for logging, "
            \o "(3) @UsePipes() for validation."
      [] endpoint.type = "fastify" ->
            "This endpoint has no hooks. Consider adding preHandler hooks for "
            \o "authentication, validation, and logging."
      [] endpoint.type = "koa" ->
            "This endpoint has no middleware chain. Consider adding middleware for "
            \o "authentication, validation, and error handling."
      [] OTHER -> "Add middleware for authentication, validation, and security."

\* an AP008 that does not look at the classification
AP008_evaluate_anyClassification(endpoint) ==
    LET auth == endpoint.authorization
    IN IF /\ Len(auth.middlewareChain) = 0
          /\ Len(auth.guardNames) = 0
          /\ ~auth.isExplicitlyPublic
       THEN <<createFinding("AP008", "Unprotected endpoint", "high",
                  endpoint.method \o " " \o endpoint.route \o " has no middleware chain",
                  endpoint, endpoint.location, AP008_getRecommendation(endpoint))>>
       ELSE <<>>

AP008_evaluate(endpoint) ==
    LET auth == endpoint.authorization
    IN IF /\ auth.classification = "public"
          /\ Len(auth.middlewareChain) = 0
          /\ Len(auth.guardNames) = 0
          /\ ~auth.isExplicitlyPublic
       THEN <<createFinding("AP008", "Unprotected endpoint", "high",
                  endpoint.method \o " " \o endpoint.route \o " has no middleware chain",
                  endpoint, endpoint.location, AP008_getRecommendation(endpoint))>>
       ELSE <<>>

-----------------------------------------------------------------------------
(* rules/rule-engine.ts *)

\* allRules of initializeRules, each rule named by its id
allRules == <<"AP001", "AP002", "AP003", "AP004", "AP005", "AP006", "AP007", "AP008">>

\* rule.evaluate(endpoint) of the rule with the given id
evaluateRule(id, endpoint) ==
    CASE id = "AP001" -> AP001_evaluate(endpoint)
      [] id = "AP002" -> AP002_evaluate(endpoint)
      [] id = "AP003" -> AP003_evaluate(endpoint)
      [] id = "AP004" -> AP004_evaluate(endpoint)
      [] id = "AP005" -> AP005_evaluate(endpoint)
      [] id = "AP006" -> AP006_evaluate(endpoint)
      [] id = "AP007" -> AP007_evaluate(endpoint)
      [] id = "AP008" -> AP008_evaluate(endpoint)

\* an initializeRules that pushes every rule of the catalogue
initializeRules_keepsDisabled(config) == allRules

\* initializeRules(config): config.rules maps some rule ids to [enabled |-> b]
initializeRules(config) ==
    SelectSeq(allRules,
              LAMBDA id : ~(id \in DOMAIN config.rules /\ config.rules[id].enabled = FALSE))

RECURSIVE evaluateEndpoint(_, _)
evaluateEndpoint(ruleList, endpoint) ==
    IF Len(ruleList) = 0 THEN <<>>
    ELSE evaluateRule(ruleList[1], endpoint) \o evaluateEndpoint(Tail(ruleList), endpoint)

\* RuleEngine.evaluate(endpoints)
RECURSIVE RuleEngine_evaluate(_, _)
RuleEngine_evaluate(ruleList, eps) ==
    IF Len(eps) = 0 THEN <<>>
    ELSE evaluateEndpoint(ruleList, eps[1]) \o RuleEngine_evaluate(ruleList, Tail(eps))

-----------------------------------------------------------------------------
(* core/config/suppression-matcher.ts *)

\* String.prototype.replace with a global literal pattern: the occurrences of
\* `from` are replaced left to right, without overlap
RECURSIVE replaceAll(_, _, _)
replaceAll(s, from, to) ==
    IF Len(s) = 0 THEN ""
    ELSE IF startsWith(s, from)
    THEN to \o replaceAll(SubSeq(s, Len(from) + 1, Len(s)), from, to)
    ELSE CharAt(s, 1) \o replaceAll(SubSeq(s, 2, Len(s)), from, to)

\* the character class [.+^${}()|[\]\\] of the escaping replace
regexSpecialChars == {".", "+", "^", "$", "{", "}", "(", ")", "|", "[", "]", "\\"}

\* replace(/[.+^${}()|[\]\\]/g, '\\$&')
RECURSIVE escapeRegexChars(_)
escapeRegexChars(s) ==
    IF Len(s) = 0 THEN ""
    ELSE (IF CharAt(s, 1) \in regexSpecialChars THEN "\\" \o CharAt(s, 1) ELSE CharAt(s, 1))
         \o escapeRegexChars(SubSeq(s, 2, Len(s)))

\* the regular expression source built by matchesRoutePattern
regexSourceOf(pattern) ==
    LET converted == replaceAll(replaceAll(replaceAll(pattern, "**", "<<<DOUBLE_STAR>>>"),
                                           "*", "[^/]+"),
                                "<<<DOUBLE_STAR>>>", ".*")
    IN "^" \o escapeRegexChars(converted) \o "$"

\* new RegExp(source) for the sources regexSourceOf can build: every
\* metacharacter but * and ? arrives escaped, so a source is the two anchors
\* around literal characters, each with an optional quantifier (*, ?, and
\* their lazy forms *? and ??).  A quantifier with nothing to repeat (after
\* the ^ anchor, or after a lazy quantifier) is a SyntaxError: ok is FALSE.
\* last is what the previous token was: "assertion", "atom", "quantifier",
\* "lazy".
RECURSIVE compileFrom(_, _, _, _)
compileFrom(source, i, items, last) ==
    IF i > Len(source) THEN [ok |-> TRUE, items |-> items]
    ELSE LET c == CharAt(source, i)
         IN CASE c = "\\" ->
                    compileFrom(source, i + 2,
                                Append(items, [ch |-> CharAt(source, i + 1), q |-> "one"]),
                                "atom")
              [] c = "^" \/ c = "$" ->
                    compileFrom(source, i + 1, items, "assertion")
              [] c = "*" ->
                    IF last = "atom"
                    THEN compileFrom(source, i + 1,
                                     [items EXCEPT ![Len(items)].q = "star"], "quantifier")
                    ELSE [ok |-> FALSE, items |-> <<>>]
              [] c = "?" ->
                    IF last = "atom"
                    THEN compileFrom(source, i + 1,
                                     [items EXCEPT ![Len(items)].q = "opt"], "quantifier")
                    ELSE IF last = "quantifier"
                    THEN compileFrom(source, i + 1, items, "lazy")
                    ELSE [ok |-> FALSE, items |-> <<>>]
              [] OTHER ->
                    compileFrom(source, i + 1, Append(items, [ch |-> c, q |-> "one"]), "atom")

RegExp(source) == compileFrom(source, 1, <<>>, "assertion")

\* regex.test(route) for an anchored, compiled expression: items from i on
\* match the route from j to its end
RECURSIVE regexMatchFrom(_, _, _, _)
regexMatchFrom(items, i, route, j) ==
    IF i > Len(items) THEN j > Len(route)
    ELSE LET here == j <= Len(route) /\ CharAt(route, j) = items[i].ch
         IN CASE items[i].q = "one" -> here /\ regexMatchFrom(items, i + 1, route, j + 1)
              [] items[i].q = "opt" ->
                    \/ here /\ regexMatchFrom(items, i + 1, route, j + 1)
                    \/ regexMatchFrom(items, i + 1, route, j)
              [] items[i].q = "star" ->
                    \/ regexMatchFrom(items, i + 1, route, j)
                    \/ here /\ regexMatchFrom(items, i, route, j + 1)

\* a matchesRoutePattern whose catch block answers true
matchesRoutePattern_invalidMatches(pattern, route) ==
    LET regex == RegExp(regexSourceOf(pattern))
    IN IF regex.ok THEN regexMatchFrom(regex.items, 1, route, 1) ELSE TRUE

\* matchesRoutePattern: the catch block answers false for an invalid expression
matchesRoutePattern(pattern, route) ==
    LET regex == RegExp(regexSourceOf(pattern))
    IN IF regex.ok THEN regexMatchFrom(regex.items, 1, route, 1) ELSE FALSE

\* JavaScript truthiness of an optional string: undefined (<<>>) and the
\* empty string are falsy
truthy(opt) == Len(opt) = 1 /\ opt[1] # ""

\* matchesEndpoint(suppression, endpoint, ruleId)
matchesEndpoint(suppression, endpoint, ruleId) ==
    IF truthy(suppression.ruleId) /\ suppression.ruleId[1] # ruleId THEN FALSE
    ELSE IF truthy(suppression.method)
            /\ toUpperCase(suppression.method[1]) # endpoint.method THEN FALSE
    ELSE IF truthy(suppression.route) /\ suppression.route[1] # endpoint.route THEN FALSE
    ELSE IF truthy(suppression.routePattern)
    THEN (IF ~matchesRoutePattern(suppression.routePattern[1], endpoint.route)
          THEN FALSE ELSE TRUE)
    ELSE TRUE

matchesFinding(suppression, finding) ==
    matchesEndpoint(suppression, finding.endpoint, finding.ruleId)

\* a findMatchingSuppression in which the last match wins
RECURSIVE findMatchingSuppression_lastMatch(_, _)
findMatchingSuppression_lastMatch(supps, finding) ==
    IF Len(supps) = 0 THEN <<>>
    ELSE IF matchesFinding(supps[Len(supps)], finding) THEN <<supps[Len(supps)]>>
    ELSE findMatchingSuppression_lastMatch(SubSeq(supps, 1, Len(supps) - 1), finding)

\* findMatchingSuppression: <<>> for null, <<suppression>> for the first match
RECURSIVE findMatchingSuppression(_, _)
findMatchingSuppression(supps, finding) ==
    IF Len(supps) = 0 THEN <<>>
    ELSE IF matchesFinding(supps[1], finding) THEN <<supps[1]>>
    ELSE findMatchingSuppression(Tail(supps), finding)

\* isEndpointSuppressed(endpoint, ruleId)
RECURSIVE isEndpointSuppressed(_, _, _)
isEndpointSuppressed(supps, endpoint, ruleId) ==
    IF Len(supps) = 0 THEN <<>>
    ELSE IF matchesEndpoint(supps[1], endpoint, ruleId) THEN <<supps[1]>>
    ELSE isEndpointSuppressed(Tail(supps), endpoint, ruleId)

\* a callback that clears the two fields of a finding nothing matches
applySuppressionsToFinding_clearsUnmatched(supps, finding) ==
    LET suppression == findMatchingSuppression(supps, finding)
    IN IF Len(suppression) = 1
       THEN [finding EXCEPT !.suppressed = TRUE,
                            !.suppressionReason = <<suppression[1].reason>>]
       ELSE [finding EXCEPT !.suppressed = FALSE, !.suppressionReason = <<>>]

\* the callback of findings.map in applySuppressionsToFindings: a copy of the
\* finding with the two fields replaced, or the finding itself
applySuppressionsToFinding(supps, finding) ==
    LET suppression == findMatchingSuppression(supps, finding)
    IN IF Len(suppression) = 1
       THEN [finding EXCEPT !.suppressed = TRUE,
                            !.suppressionReason = <<suppression[1].reason>>]
       ELSE finding

\* an applySuppressionsToFindings that removes the suppressed findings
applySuppressionsToFindings_dropsSuppressed(supps, fs) ==
    SelectSeq(fs, LAMBDA f : findMatchingSuppression(supps, f) = <<>>)

\* applySuppressionsToFindings(findings)
applySuppressionsToFindings(supps, fs) ==
    [i \in 1..Len(fs) |-> applySuppressionsToFinding(supps, fs[i])]

-----------------------------------------------------------------------------
(* Scanned projects.  A project is the sequence of loaded source files in  *)
(* the order loadDirectory returns them.                                   *)

MaxMiddlewares == 2   \* middleware arguments of a route call
MaxDecorators == 2    \* authorization decorators of a controller method
MaxFiles == 2         \* files of a multi-file project

SeqsUpTo(S, n) == UNION {[1..k -> S] : k \in 0..n}

Handler == Identifier("handler")

\* caller.method(path, ...middlewares, handler)
RouteCall(caller, method, pathNode, middlewares) ==
    CallExpression(PropertyAccessExpression(Identifier(caller), method),
                   <<pathNode>> \o middlewares \o <<Handler>>)

\* app.use(prefix, router)
MountCall(appName, prefix, routerName) ==
    CallExpression(PropertyAccessExpression(Identifier(appName), "use"),
                   <<StringLiteral(prefix), Identifier(routerName)>>)

SingleFile(statements) == <<LoadedSourceFile("src/app.ts", statements)>>

Callers == {"app", "router", "fastify", "koaRouter", "db"}

MethodNames == EXPRESS_HTTP_METHODS \cup {"Get", "use", "listen"}

PathNodes ==
    {StringLiteral("/api/products"), StringLiteral("api/orders/"),
     StringLiteral("//v1//items/"), StringLiteral("/"), StringLiteral(""),
     StringLiteral("/admin/users"), NoSubstitutionTemplateLiteral("/api/health"),
     TemplateExpression("/users/", <<"/posts">>), Identifier("ROUTE")}

MiddlewareNodes ==
    {Identifier("allowAnonymous"), Identifier("authenticate"), Identifier("logger"),
     Identifier("noAuth"),
     PropertyAccessExpression(Identifier("auth"), "optional"),
     PropertyAccessExpression(Identifier("authorize"), "admin"),
     CallExpression(PropertyAccessExpression(Identifier("passport"), "authenticate"),
                    <<StringLiteral("jwt")>>),
     CallExpression(Identifier("requireRole"), <<StringLiteral("admin")>>),
     ArrayLiteralExpression(<<Identifier("auth"), Identifier("rateLimit")>>)}

\* one route call, every caller, method name and path shape
ProjectsRoutes(files) ==
    \E c \in Callers, m \in MethodNames, p \in PathNodes :
        files = SingleFile(<<RouteCall(c, m, p, <<>>)>>)

\* a route call without a handler argument
ProjectsBare(files) ==
    \E c \in {"app", "router"}, m \in {"get", "post"},
       args \in {<<>>, <<StringLiteral("/api/products")>>} :
        files = SingleFile(<<CallExpression(PropertyAccessExpression(Identifier(c), m),
                                            args)>>)

\* a router mount before or after a route call of the same file
ProjectsMounts(files) ==
    \E c \in {"app", "router", "userRouter"}, prefix \in {"/api", "api/", "/v1//", ""},
       p \in PathNodes :
        \/ files = SingleFile(<<MountCall("app", prefix, "router"),
                                RouteCall(c, "get", p, <<>>)>>)
        \/ files = SingleFile(<<RouteCall(c, "get", p, <<>>),
                                MountCall("app", prefix, "router")>>)

\* one route call with up to MaxMiddlewares middleware arguments
ProjectsMiddlewares(files) ==
    \/ \E c \in {"app", "router", "fastify", "koaRouter"},
          mws \in SeqsUpTo(MiddlewareNodes, MaxMiddlewares) :
           files = SingleFile(<<RouteCall(c, "get", StringLiteral("/api/products"), mws)>>)
    \/ \E c \in {"app", "router", "fastify", "koaRouter"}, mw \in MiddlewareNodes :
           files = SingleFile(<<RouteCall(c, "post", StringLiteral("/api/orders"), <<mw>>)>>)

\* middleware names that fall into two categories of the Express extractor,
\* or into its role category alone
RoleMiddlewareNodes ==
    {Identifier("noAuth"), Identifier("authorize"), Identifier("authenticate"),
     PropertyAccessExpression(Identifier("acl"), "can")}

\* one Express route call with up to MaxMiddlewares of them
ProjectsRoleMiddlewares(files) ==
    \E c \in {"app", "router"}, mws \in SeqsUpTo(RoleMiddlewareNodes, MaxMiddlewares) :
        files = SingleFile(<<RouteCall(c, "get", StringLiteral("/api/products"), mws)>>)

HookNodes ==
    {Identifier("authenticate"), Identifier("logRequest"),
     PropertyAccessExpression(Identifier("fastify"), "authenticate"),
     ArrayLiteralExpression(<<Identifier("verifyJWT"), Identifier("rateLimit")>>)}

\* fastify.get(path, {hook: value}, handler) and fastify.route({...})
ProjectsFastify(files) ==
    \/ \E c \in {"fastify", "app"}, m \in {"get", "delete"},
          hook \in {"preHandler", "onRequest", "schema"}, value \in HookNodes :
           files = SingleFile(<<CallExpression(
                                    PropertyAccessExpression(Identifier(c), m),
                                    <<StringLiteral("/items/"),
                                      ObjectLiteralExpression(
                                          <<PropertyAssignment(hook, value)>>),
                                      Handler>>)>>)
    \/ \E c \in {"fastify", "router"}, m \in {"GET", "post", "TRACE"},
          url \in {"/items/", "orders", ""},
          hook \in {"preHandler", "schema"}, value \in HookNodes :
           files = SingleFile(<<CallExpression(
                                    PropertyAccessExpression(Identifier(c), "route"),
                                    <<ObjectLiteralExpression(
                                          <<PropertyAssignment("method", StringLiteral(m)),
                                            PropertyAssignment("url", StringLiteral(url)),
                                            PropertyAssignment(hook, value),
                                            PropertyAssignment("handler", Handler)>>)>>)>>)

\* fastify.route({...}) with the method or the url missing, or given by
\* something other than a string literal
ProjectsFastifyRoute(files) ==
    \E method \in {<<>>, <<StringLiteral("GET")>>, <<Identifier("METHOD")>>,
                    <<ArrayLiteralExpression(<<StringLiteral("GET"),
                                               StringLiteral("POST")>>)>>,
                    <<NoSubstitutionTemplateLiteral("put")>>},
       url \in {<<>>, <<StringLiteral("/items")>>, <<Identifier("URL")>>,
                 <<TemplateExpression("/items/", <<"">>)>>,
                 <<NoSubstitutionTemplateLiteral("/items")>>},
       rest \in {<<>>, <<PropertyAssignment("preHandler", Identifier("authenticate"))>>} :
        files = SingleFile(<<CallExpression(
                                 PropertyAccessExpression(Identifier("fastify"), "route"),
                                 <<ObjectLiteralExpression(
                                       [k \in 1..Len(method) |->
                                           PropertyAssignment("method", method[k])]
                                       \o [k \in 1..Len(url) |->
                                              PropertyAssignment("url", url[k])]
                                       \o rest)>>)>>)

\* @Name(...args) and @Name
Decorator(name, args) == CallExpression(Identifier(name), args)

\* the decorators of a controller class besides @Controller
ClassDecorators ==
    {<<>>,
     <<Decorator("UseGuards", <<Identifier("AuthGuard")>>)>>,
     <<Decorator("UseGuards", <<Identifier("ThrottlerGuard")>>)>>,
     <<Decorator("UseGuards",
                 <<CallExpression(Identifier("AuthGuard"), <<StringLiteral("jwt")>>)>>)>>,
     <<Decorator("UseGuards", <<Identifier("JwtAuthGuard")>>),
       Decorator("Roles", <<StringLiteral("admin")>>)>>,
     <<Decorator("Public", <<>>)>>}

\* the authorization decorators a controller method can carry
MethodDecorators ==
    {Decorator("Public", <<>>), Identifier("AllowAnonymous"),
     Decorator("UseGuards", <<Identifier("JwtAuthGuard")>>),
     Decorator("UseGuards", <<Identifier("ThrottlerGuard")>>),
     Decorator("Roles", <<StringLiteral("admin"), StringLiteral("billing-admin")>>),
     Decorator("Roles", <<ArrayLiteralExpression(
                              <<StringLiteral("a"), StringLiteral("b"),
                                StringLiteral("c"), StringLiteral("d")>>)>>),
     Decorator("Policies", <<StringLiteral("orders.read")>>)}

Controller(path, classDecorators, members) ==
    ClassDeclaration("ItemsController",
                     <<Decorator("Controller", path)>> \o classDecorators, members)

\* a controller with one method: every verb and path shape
ProjectsNestRoutes(files) ==
    \E cp \in {<<>>, <<StringLiteral("items")>>, <<StringLiteral("/api//items/")>>,
               <<StringLiteral("/")>>},
       verb \in {"Get", "Post", "Put", "Delete", "Patch", "Options", "Head", "All",
                 "Injectable"},
       mp \in {<<>>, <<StringLiteral(":id")>>, <<StringLiteral("/admin/")>>,
               <<Identifier("PATH")>>} :
        files = SingleFile(<<Controller(cp, <<>>,
                                <<MethodDeclaration("find", <<Decorator(verb, mp)>>)>>)>>)

\* a controller with one method: class decorators and up to MaxDecorators
\* method decorators after the verb decorator, or one before it
ProjectsNestAuth(files) ==
    \/ \E cd \in ClassDecorators, md \in SeqsUpTo(MethodDecorators, MaxDecorators) :
           files = SingleFile(<<Controller(<<StringLiteral("items")>>, cd,
                                   <<MethodDeclaration("find",
                                         <<Decorator("Get", <<>>)>> \o md)>>)>>)
    \/ \E cd \in ClassDecorators, md \in MethodDecorators :
           files = SingleFile(<<Controller(<<StringLiteral("items")>>, cd,
                                   <<MethodDeclaration("create",
                                         <<md, Decorator("Post", <<>>)>>)>>)>>)

\* the files of a multi-file project
FileSet ==
    {LoadedSourceFile("src/routes.ts",
        <<RouteCall("router", "get", StringLiteral("/items"), <<>>)>>),
     LoadedSourceFile("src/app.ts",
        <<MountCall("app", "/api", "router")>>),
     LoadedSourceFile("src/admin.ts",
        <<MountCall("app", "/admin", "router"),
          RouteCall("app", "get", StringLiteral("/status"), <<>>)>>),
     LoadedSourceFile("src/users.ts",
        <<RouteCall("router", "post", StringLiteral("/users"),
                    <<Identifier("authenticate")>>),
          Controller(<<StringLiteral("users")>>,
                     <<Decorator("UseGuards", <<Identifier("AuthGuard")>>)>>,
                     <<MethodDeclaration("list", <<Decorator("Get", <<>>)>>),
                       MethodDeclaration("helper", <<>>),
                       MethodDeclaration("create",
                           <<Decorator("Post", <<>>), Decorator("Public", <<>>)>>),
                       MethodDeclaration("health",
                           <<Decorator("Get", <<StringLiteral("health")>>),
                             Decorator("Public", <<>>)>>),
                       MethodDeclaration("remove",
                           <<Decorator("Delete", <<StringLiteral(":id")>>),
                             Decorator("Roles", <<StringLiteral("admin")>>),
                             Decorator("Public", <<>>)>>)>>)>>)}

\* up to MaxFiles different files, in every load order
ProjectsMultiFile(files) ==
    \E k \in 1..MaxFiles :
        \E fs \in [1..k -> FileSet] :
            /\ \A i, j \in 1..k : i # j => fs[i] # fs[j]
            /\ files = fs

\* new Guard()
NewGuard(name) == NewExpression(Identifier(name), <<>>)

\* the registration calls the global auth analyzer looks for
GlobalRegistrations ==
    {CallExpression(PropertyAccessExpression(Identifier("app"), "useGlobalGuards"),
                    <<NewGuard("JwtAuthGuard")>>),
     CallExpression(PropertyAccessExpression(Identifier("app"), "useGlobalGuards"),
                    <<Identifier("guard")>>),
     CallExpression(PropertyAccessExpression(Identifier("app"), "setGlobalPrefix"),
                    <<StringLiteral("api")>>),
     CallExpression(PropertyAccessExpression(Identifier("app"), "setGlobalPrefix"),
                    <<Identifier("PREFIX")>>),
     CallExpression(PropertyAccessExpression(Identifier("providers"), "push"),
                    <<ObjectLiteralExpression(
                          <<PropertyAssignment("provide", Identifier("APP_GUARD")),
                            PropertyAssignment("useClass", Identifier("RolesGuard"))>>)>>)}

\* the statements a global registration is added to
GlobalAuthBases ==
    {<<Controller(<<StringLiteral("items")>>, <<>>,
                  <<MethodDeclaration("find", <<Decorator("Get", <<>>)>>),
                    MethodDeclaration("create",
                        <<Decorator("Post", <<>>),
                          Decorator("UseGuards", <<Identifier("JwtAuthGuard")>>)>>)>>)>>,
     <<RouteCall("app", "post", StringLiteral("/orders"), <<>>)>>,
     <<RouteCall("router", "get", StringLiteral("/items"), <<Identifier("authenticate")>>)>>}

\* a global guard or global prefix registration before or after the routes
\* of the file, or two of them around the routes
ProjectsGlobalAuth(files) ==
    \E base \in GlobalAuthBases, g1 \in GlobalRegistrations, g2 \in GlobalRegistrations :
        \/ files = SingleFile(<<g1>> \o base)
        \/ files = SingleFile(base \o <<g1>>)
        \/ g1 # g2 /\ files = SingleFile(<<g1>> \o base \o <<g2>>)

\* the projects the scan is run on
Projects(files) ==
    \/ ProjectsRoutes(files)
    \/ ProjectsBare(files)
    \/ ProjectsMounts(files)
    \/ ProjectsMiddlewares(files)
    \/ ProjectsRoleMiddlewares(files)
    \/ ProjectsFastify(files)
    \/ ProjectsFastifyRoute(files)
    \/ ProjectsNestRoutes(files)
    \/ ProjectsNestAuth(files)
    \/ ProjectsMultiFile(files)
    \/ ProjectsGlobalAuth(files)

-----------------------------------------------------------------------------
(* The scan: cli/commands/scan.ts runScan, with the ProjectAnalyzer loops  *)
(* unrolled into one step per discoverer and file.                         *)

\* the discoverers runScan registers when no api-style filter is given
discoverers == <<"express", "nestjs", "fastify", "koa">>

\* an ApiPostureConfig: rule entries by rule id, and suppressions
ApiPostureConfig(ruleEntries, supps) == [rules |-> ruleEntries, suppressions |-> supps]

\* what configLoader.load returns for the scan: no configuration file, or
\* one with a suppression
ScanConfigurations ==
    {ApiPostureConfig(<<>>, <<>>),
     ApiPostureConfig(<<>>, <<[ruleId |-> <<"AP001">>, route |-> <<"/api/products">>,
                               routePattern |-> <<>>, method |-> <<>>,
                               reason |-> "intentional"]>>)}

\* runScan up to the analysis: the configuration is loaded and kept nowhere,
\* the analyzer and its discoverers are constructed
Init ==
    /\ Projects(project)
    /\ configuration \in ScanConfigurations
    /\ pc = "discover"
    /\ di = 1
    /\ fi = 1
    /\ registry = NewRouteGroupRegistry
    /\ endpoints = <<>>
    /\ rules = <<>>
    /\ findings = <<>>
    /\ suppressions = <<>>
    /\ result = <<>>

\* the two loops of discoverEndpoints move on to the next file, the next
\* discoverer, or the rule engine
NextFile ==
    IF fi < Len(project) THEN fi' = fi + 1 /\ di' = di /\ pc' = pc
    ELSE IF di < Len(discoverers) THEN fi' = 1 /\ di' = di + 1 /\ pc' = pc
    ELSE fi' = fi /\ di' = di /\ pc' = "evaluate"

ExpressDiscover ==
    /\ pc = "discover" /\ discoverers[di] = "express"
    /\ LET discovered == Express_discover(registry, project[fi])
       IN /\ registry' = discovered.registry
          /\ endpoints' = endpoints \o discovered.endpoints
    /\ NextFile
    /\ UNCHANGED <<project, rules, findings, suppressions, configuration, result>>

NestJSDiscover ==
    /\ pc = "discover" /\ discoverers[di] = "nestjs"
    /\ endpoints' = endpoints \o NestJS_discover(project[fi])
    /\ NextFile
    /\ UNCHANGED <<project, registry, rules, findings, suppressions, configuration, result>>

FastifyDiscover ==
    /\ pc = "discover" /\ discoverers[di] = "fastify"
    /\ endpoints' = endpoints \o Fastify_discover(project[fi])
    /\ NextFile
    /\ UNCHANGED <<project, registry, rules, findings, suppressions, configuration, result>>

KoaDiscover ==
    /\ pc = "discover" /\ discoverers[di] = "koa"
    /\ endpoints' = endpoints \o Koa_discover(project[fi])
    /\ NextFile
    /\ UNCHANGED <<project, registry, rules, findings, suppressions, configuration, result>>

\* new RuleEngine() and ruleEngine.evaluate(result.endpoints)
EvaluateRules ==
    /\ pc = "evaluate"
    /\ rules' = initializeRules([rules |-> <<>>])
    /\ findings' = RuleEngine_evaluate(rules', endpoints)
    /\ pc' = "report"
    /\ UNCHANGED <<project, di, fi, registry, endpoints, suppressions, configuration, result>>

\* applyFilters with the default options (no filter, no sorting) and the
\* hand-over of the findings to the formatter
Report ==
    /\ pc = "report"
    /\ result' = findings
    /\ pc' = "done"
    /\ UNCHANGED <<project, di, fi, registry, endpoints, rules, findings,
                   suppressions, configuration>>

Next ==
    \/ ExpressDiscover
    \/ NestJSDiscover
    \/ FastifyDiscover
    \/ KoaDiscover
    \/ EvaluateRules
    \/ Report

Spec == Init /\ [][Next]_vars

-----------------------------------------------------------------------------
(* The rule engine on its own: RuleEngine.evaluate applied to endpoints of *)
(* the Endpoint type, whatever produced them.                              *)

MaxRoles == 4   \* roles of an endpoint handed to the rule engine

RoleNames == {"Admin", "editor"}

RouteSamples == {"/users", "/api/Admin/logs"}

Classifications == {"public", "authenticated", "role-restricted", "policy-restricted"}

\* one endpoint with any combination of the fields the rules read
InitRules ==
    /\ \E route \in RouteSamples, method \in {"GET", "POST"},
          type \in {"express", "nestjs"},
          isAuthenticated \in BOOLEAN, isExplicitlyPublic \in BOOLEAN,
          roles \in SeqsUpTo(RoleNames, MaxRoles),
          middlewareChain \in {<<>>, <<"logger">>},
          guardNames \in {<<>>, <<"AuthGuard">>},
          classification \in Classifications :
           endpoints =
               <<createEndpoint(
                     route, method, "handler", <<>>, type,
                     SourceLocation("src/app.ts", 1, 1),
                     [isAuthenticated |-> isAuthenticated,
                      isExplicitlyPublic |-> isExplicitlyPublic,
                      roles |-> roles,
                      policies |-> IF classification = "policy-restricted"
                                   THEN <<"orders.read">> ELSE <<>>,
                      middlewareChain |-> middlewareChain,
                      guardNames |-> guardNames,
                      classification |-> classification])>>
    /\ rules = initializeRules([rules |-> <<>>])
    /\ pc = "engine"
    /\ project = <<>>
    /\ di = 1
    /\ fi = 1
    /\ registry = NewRouteGroupRegistry
    /\ findings = <<>>
    /\ suppressions = <<>>
    /\ configuration = ApiPostureConfig(<<>>, <<>>)
    /\ result = <<>>

\* ruleEngine.evaluate(endpoints)
Evaluate ==
    /\ pc = "engine"
    /\ findings' = RuleEngine_evaluate(rules, endpoints)
    /\ pc' = "evaluated"
    /\ UNCHANGED <<project, di, fi, registry, endpoints, rules, suppressions, configuration, result>>

NextRules == Evaluate

SpecRules == InitRules /\ [][NextRules]_vars

-----------------------------------------------------------------------------
(* The rule engine with a configuration: new RuleEngine(config), then      *)
(* evaluate on a list of endpoints.                                        *)

MaxEndpoints == 2   \* endpoints handed to evaluate

\* config.rules with the given rule ids disabled and the given ones enabled
RuleEntries(disabled, enabled) ==
    [id \in disabled \cup enabled |-> [enabled |-> id \in enabled]]

RuleConfigs ==
    {RuleEntries({}, {}),
     RuleEntries({"AP001"}, {}),
     RuleEntries({}, {"AP001", "AP004"}),
     RuleEntries({"AP004", "AP006"}, {"AP008"}),
     RuleEntries({"AP002", "AP003", "AP005", "AP007"}, {}),
     RuleEntries({"AP001", "AP002", "AP003", "AP004", "AP005", "AP006", "AP007", "AP008"}, {})}

\* an endpoint with the given authorization fields
SampleEndpoint(route, method, type, isAuthenticated, isExplicitlyPublic, roles) ==
    createEndpoint(route, method, "handler", <<>>, type, SourceLocation("src/app.ts", 1, 1),
                   [isAuthenticated |-> isAuthenticated,
                    isExplicitlyPublic |-> isExplicitlyPublic,
                    roles |-> roles,
                    policies |-> <<>>,
                    middlewareChain |-> <<>>,
                    guardNames |-> <<>>,
                    classification |-> "public"])

\* endpoints on which several rules fire
EndpointSamples ==
    {SampleEndpoint("/api/orders", "POST", "express", FALSE, FALSE, <<>>),
     SampleEndpoint("/admin/logs", "GET", "express", FALSE, FALSE, <<>>),
     SampleEndpoint("/items", "POST", "nestjs", TRUE, TRUE, <<>>),
     SampleEndpoint("/reports", "GET", "express", TRUE, FALSE,
                    <<"admin", "editor", "viewer", "auditor">>)}

InitEngine ==
    /\ \E ruleEntries \in RuleConfigs : configuration = ApiPostureConfig(ruleEntries, <<>>)
    /\ endpoints \in SeqsUpTo(EndpointSamples, MaxEndpoints)
    /\ rules = <<>>
    /\ pc = "construct"
    /\ project = <<>>
    /\ di = 1
    /\ fi = 1
    /\ registry = NewRouteGroupRegistry
    /\ findings = <<>>
    /\ suppressions = <<>>
    /\ result = <<>>

\* new RuleEngine(config)
Construct ==
    /\ pc = "construct"
    /\ rules' = rules \o initializeRules(configuration)
    /\ pc' = "engine"
    /\ UNCHANGED <<project, di, fi, registry, endpoints, findings, suppressions, configuration,
                   result>>

NextEngine ==
    \/ Construct
    \/ Evaluate

SpecEngine == InitEngine /\ [][NextEngine]_vars

-----------------------------------------------------------------------------
(* The route group registry of one ExpressDiscoverer instance: the calls   *)
(* of its interface in any order, and the discoverer's discover(file),     *)
(* which registers the mounts of the file.  result records the last call   *)
(* of the interface and what it returned.                                  *)

MaxRegistrations == 2   \* groups and mounts held by the registry

RegistryFiles == {"src/app.ts", "src/routes.ts"}

RegistryNames == {"router", "api"}

RegistryPrefixes == {"/api", "/v1"}

RegistryMiddlewares == {<<"authenticate">>, <<"logger">>}

\* files handed to discover
DiscoveredFiles ==
    {LoadedSourceFile("src/app.ts", <<MountCall("app", "/api", "router")>>),
     LoadedSourceFile("src/routes.ts",
                      <<RouteCall("router", "get", StringLiteral("/items"), <<>>)>>)}

RECURSIVE CountItems(_)
CountItems(m) == IF Len(m) = 0 THEN 0 ELSE Len(m[1].items) + CountItems(Tail(m))

Registrations(reg) == CountItems(reg.groups) + CountItems(reg.routerMounts)

Call(name, filePath, identifier, returned) ==
    [call |-> name, filePath |-> filePath, name |-> identifier, returned |-> returned]

InitRegistry ==
    /\ registry = NewRouteGroupRegistry
    /\ result = Call("constructor", "", "", <<>>)
    /\ pc = "registry"
    /\ project = <<>>
    /\ di = 1
    /\ fi = 1
    /\ endpoints = <<>>
    /\ rules = <<>>
    /\ findings = <<>>
    /\ suppressions = <<>>
    /\ configuration = ApiPostureConfig(<<>>, <<>>)

RegisterGroup ==
    /\ Registrations(registry) < MaxRegistrations
    /\ \E filePath \in RegistryFiles, variableName \in RegistryNames,
          middlewares \in RegistryMiddlewares :
           /\ registry' = registerGroup(registry, filePath, variableName, "/v1", middlewares)
           /\ result' = Call("registerGroup", filePath, variableName, <<>>)
    /\ UNCHANGED <<pc, project, di, fi, endpoints, rules, findings, suppressions, configuration>>

RegisterRouterMount ==
    /\ Registrations(registry) < MaxRegistrations
    /\ \E filePath \in RegistryFiles, prefix \in RegistryPrefixes :
           /\ registry' = registerRouterMount(registry, filePath, "app", prefix, "router")
           /\ result' = Call("registerRouterMount", filePath, "router", <<>>)
    /\ UNCHANGED <<pc, project, di, fi, endpoints, rules, findings, suppressions, configuration>>

GetGroup ==
    /\ \E filePath \in RegistryFiles, variableName \in RegistryNames :
           result' = Call("getGroup", filePath, variableName,
                          getGroup(registry, filePath, variableName))
    /\ UNCHANGED <<pc, project, di, fi, registry, endpoints, rules, findings, suppressions,
                   configuration>>

GetRouterPrefix ==
    /\ \E filePath \in RegistryFiles, routerName \in RegistryNames :
           result' = Call("getRouterPrefix", filePath, routerName,
                          getRouterPrefix(registry, filePath, routerName))
    /\ UNCHANGED <<pc, project, di, fi, registry, endpoints, rules, findings, suppressions,
                   configuration>>

GetAllMiddlewares ==
    /\ \E filePath \in RegistryFiles, variableName \in RegistryNames :
           result' = Call("getAllMiddlewares", filePath, variableName,
                          getAllMiddlewares(registry, filePath, variableName))
    /\ UNCHANGED <<pc, project, di, fi, registry, endpoints, rules, findings, suppressions,
                   configuration>>

Clear ==
    /\ registry' = clear(registry)
    /\ result' = Call("clear", "", "", <<>>)
    /\ UNCHANGED <<pc, project, di, fi, endpoints, rules, findings, suppressions, configuration>>

\* ExpressDiscoverer.discover(file) on the instance that owns the registry
Discover ==
    /\ \E file \in DiscoveredFiles :
           LET discovered == Express_discover(registry, file)
           IN /\ Registrations(discovered.registry) <= MaxRegistrations
              /\ registry' = discovered.registry
              /\ result' = Call("discover", file.filePath, "", discovered.endpoints)
    /\ UNCHANGED <<pc, project, di, fi, endpoints, rules, findings, suppressions, configuration>>

NextRegistry ==
    \/ RegisterGroup
    \/ RegisterRouterMount
    \/ GetGroup
    \/ GetRouterPrefix
    \/ GetAllMiddlewares
    \/ Clear
    \/ Discover

SpecRegistry == InitRegistry /\ [][NextRegistry]_vars

-----------------------------------------------------------------------------
(* The suppression matcher on its own: a SuppressionMatcher built on a     *)
(* suppression list, applied to the findings of a rule engine run.         *)

MaxSuppressions == 2   \* suppressions of the matcher's list

\* the reason of the suppression at each list position
Reasons == <<"intentional", "legacy", "tracked", "accepted">>

Filters(ruleId, method, route, routePattern) ==
    [ruleId |-> ruleId, method |-> method, route |-> route, routePattern |-> routePattern]

\* filter combinations: none, each filter alone (undefined, empty or set),
\* and several together
FilterSamples ==
    {Filters(<<>>, <<>>, <<>>, <<>>),
     Filters(<<"AP001">>, <<>>, <<>>, <<>>),
     Filters(<<"AP008">>, <<>>, <<>>, <<>>),
     Filters(<<"">>, <<>>, <<"/api/orders">>, <<>>),
     Filters(<<>>, <<"get">>, <<>>, <<>>),
     Filters(<<>>, <<"POST">>, <<>>, <<>>),
     Filters(<<>>, <<"">>, <<>>, <<"">>),
     Filters(<<>>, <<>>, <<"/api/health">>, <<>>),
     Filters(<<>>, <<>>, <<>>, <<"/api/health">>),
     Filters(<<>>, <<>>, <<>>, <<"/api/*">>),
     Filters(<<>>, <<>>, <<>>, <<"/api/hea?lth">>),
     Filters(<<>>, <<>>, <<>>, <<"?">>),
     Filters(<<"AP001">>, <<"Get">>, <<>>, <<>>),
     Filters(<<"AP004">>, <<"post">>, <<"/api/orders">>, <<>>),
     Filters(<<"AP008">>, <<>>, <<"/api/orders">>, <<"/api/orders">>),
     Filters(<<"AP001">>, <<"GET">>, <<"/api/health">>, <<"/api/hea?lth">>)}

\* the files whose findings are handed to the matcher
FindingSources ==
    {<<>>,
     <<RouteCall("router", "get", StringLiteral("/api/health"), <<>>)>>,
     <<RouteCall("router", "post", StringLiteral("/api/orders"), <<>>)>>,
     <<RouteCall("router", "get", StringLiteral("/api/health"), <<>>),
       RouteCall("router", "post", StringLiteral("/api/orders"), <<>>)>>,
     <<RouteCall("router", "delete", StringLiteral("/api/orders"), <<>>),
       RouteCall("router", "get", StringLiteral("/api/health"),
                 <<Identifier("authenticate")>>),
       RouteCall("router", "get", StringLiteral("/api/[^/]+"), <<>>)>>}

InitMatcher ==
    /\ \E k \in 0..MaxSuppressions :
           \E filters \in [1..k -> FilterSamples] :
               suppressions =
                   [i \in 1..k |->
                       [ruleId |-> filters[i].ruleId,
                        route |-> filters[i].route,
                        routePattern |-> filters[i].routePattern,
                        method |-> filters[i].method,
                        reason |-> Reasons[i]]]
    /\ \E statements \in FindingSources :
           /\ project = <<LoadedSourceFile("src/routes.ts", statements)>>
           /\ endpoints = Express_discover(NewRouteGroupRegistry, project[1]).endpoints
    /\ rules = initializeRules([rules |-> <<>>])
    /\ findings = RuleEngine_evaluate(rules, endpoints)
    /\ pc = "matcher"
    /\ di = 1
    /\ fi = 1
    /\ registry = NewRouteGroupRegistry
    /\ configuration = ApiPostureConfig(<<>>, suppressions)
    /\ result = <<>>

\* matcher.applySuppressionsToFindings(findings)
ApplySuppressions ==
    /\ pc = "matcher"
    /\ result' = applySuppressionsToFindings(suppressions, findings)
    /\ pc' = "applied"
    /\ UNCHANGED <<project, di, fi, registry, endpoints, rules, findings,
                   suppressions, configuration>>

NextMatcher == ApplySuppressions

SpecMatcher == InitMatcher /\ [][NextMatcher]_vars

-----------------------------------------------------------------------------
(* Properties *)

\* C1: every endpoint a discoverer has emitted stores the classification
\* that follows from its other fields (policy-restricted if it has policies,
\* else role-restricted if it has roles, else authenticated if
\* isAuthenticated, else public), and the value does not depend on
\* isExplicitlyPublic.
C1_ClassificationFollowsFields ==
    \A i \in 1..Len(endpoints) :
        LET a == endpoints[i].authorization
            expected == IF a.policies # <<>> THEN "policy-restricted"
                        ELSE IF a.roles # <<>> THEN "role-restricted"
                        ELSE IF a.isAuthenticated THEN "authenticated"
                        ELSE "public"
        IN /\ a.classification = expected
           /\ \A b \in BOOLEAN :
                  determineClassification([a EXCEPT !.isExplicitlyPublic = b])
                      = a.classification
           /\ (a.roles # <<>> /\ a.policies = <<>>) => a.classification = "role-restricted"

\* all four discoverers have emitted endpoints, one of them role-restricted
\* although it is explicitly public
C1_Witness ==
    /\ pc = "done"
    /\ \A t \in {"express", "nestjs", "fastify", "koa"} :
           \E i \in 1..Len(endpoints) : endpoints[i].type = t
    /\ \E i \in 1..Len(endpoints) :
           /\ endpoints[i].authorization.roles # <<>>
           /\ endpoints[i].authorization.isExplicitlyPublic
           /\ endpoints[i].authorization.classification = "role-restricted"

\* ^/([^/]+(/[^/]+)*)?$ : a leading slash, no two slashes in a row, no
\* trailing slash unless the route is the root
RouteWellFormed(route) ==
    /\ Len(route) >= 1
    /\ CharAt(route, 1) = "/"
    /\ \A k \in 1..(Len(route) - 1) : ~(CharAt(route, k) = "/" /\ CharAt(route, k + 1) = "/")
    /\ CharAt(route, Len(route)) = "/" => Len(route) = 1

\* C2: the route of every emitted endpoint matches ^/([^/]+(/[^/]+)*)?$,
\* whatever the mount prefix, the controller prefix and the literal path.
C2_RoutesAreNormalized ==
    \A i \in 1..Len(endpoints) : RouteWellFormed(endpoints[i].route)

\* a mounted Express route whose prefix and path both needed a leading slash
\* added, slashes collapsed and a trailing slash removed, and a NestJS route
\* under a controller prefix
C2_Witness ==
    \/ \E i \in 1..Len(endpoints) :
           /\ endpoints[i].type = "express"
           /\ endpoints[i].route = "/v1/v1/items"
    \/ \E i \in 1..Len(endpoints) :
           /\ endpoints[i].type = "nestjs"
           /\ endpoints[i].route = "/api/items/admin"

\* the rule table: the 13 weak role names and the 20 sensitive keywords
TableWeakNames ==
    {"user", "admin", "guest", "member", "moderator", "manager", "superuser", "root",
     "default", "basic", "standard", "premium", "vip"}

TableSensitiveKeywords ==
    {"admin", "debug", "internal", "export", "import", "backup", "config", "settings",
     "system", "management", "dashboard", "metrics", "logs", "audit", "secret",
     "private", "hidden", "test", "dev", "staging"}

HasSensitiveKeyword(route) ==
    \E kw \in TableSensitiveKeywords : includes(toLowerCase(route), kw)

\* the rule table: the condition of each rule id on an endpoint
TableCondition(id, e) ==
    LET a == e.authorization
        isPublic == a.classification = "public"
        isWrite == e.method \in {"POST", "PUT", "DELETE", "PATCH"}
    IN CASE id = "AP001" ->
                isPublic /\ ~a.isExplicitlyPublic /\ ~a.isAuthenticated /\ a.guardNames = <<>>
         [] id = "AP002" -> isWrite /\ a.isExplicitlyPublic
         [] id = "AP003" -> e.type = "nestjs" /\ a.isAuthenticated /\ a.isExplicitlyPublic
         [] id = "AP004" ->
                isWrite /\ isPublic /\ ~a.isAuthenticated /\ ~a.isExplicitlyPublic
         [] id = "AP005" -> Len(a.roles) > 3
         [] id = "AP006" ->
                \E k \in 1..Len(a.roles) : toLowerCase(a.roles[k]) \in TableWeakNames
         [] id = "AP007" -> isPublic /\ HasSensitiveKeyword(e.route)
         [] id = "AP008" ->
                isPublic /\ a.middlewareChain = <<>> /\ a.guardNames = <<>>
                    /\ ~a.isExplicitlyPublic

\* the rule table: the severity of each rule id
TableSeverity(id) ==
    CASE id = "AP001" -> "high"
      [] id = "AP002" -> "high"
      [] id = "AP003" -> "medium"
      [] id = "AP004" -> "critical"
      [] id = "AP005" -> "low"
      [] id = "AP006" -> "low"
      [] id = "AP007" -> "medium"
      [] id = "AP008" -> "high"

TableIds == {"AP001", "AP002", "AP003", "AP004", "AP005", "AP006", "AP007", "AP008"}

\* C3: for every endpoint and every rule id AP001..AP008, the full rule
\* engine emits a finding with that id, carrying the table's severity, if
\* and only if the table's condition for the id holds on the endpoint; it
\* emits nothing else.
C3_FindingsFollowRuleTable ==
    pc = "evaluated" =>
        /\ \A id \in TableIds :
               (\E k \in 1..Len(findings) :
                    /\ findings[k].ruleId = id
                    /\ findings[k].severity = TableSeverity(id)
                    /\ findings[k].endpoint = endpoints[1])
               <=> TableCondition(id, endpoints[1])
        /\ \A k \in 1..Len(findings) :
               /\ findings[k].ruleId \in TableIds
               /\ findings[k].severity = TableSeverity(findings[k].ruleId)

\* the engine has evaluated a public write endpoint with four roles, a weak
\* one among them, under a sensitive route: six rules fire together
C3_Witness ==
    /\ pc = "evaluated"
    /\ [k \in 1..Len(findings) |-> findings[k].ruleId]
           = <<"AP001", "AP004", "AP005", "AP006", "AP007", "AP008">>
    /\ Len(endpoints[1].authorization.roles) = 4

\* the call expression a call-based endpoint was discovered at
SiteOf(e) ==
    LET file == project[CHOOSE k \in 1..Len(project) :
                            project[k].filePath = e.location.filePath]
    IN findCallExpressions(file.statements)[e.location.line]

\* the call has a path and at most a handler, and no options object with a
\* preHandler or onRequest hook
NoMiddlewareArguments(call) ==
    /\ Len(call.arguments) <= 2
    /\ \A k \in 1..Len(call.arguments) :
           isObjectLiteralExpression(call.arguments[k]) =>
               \A l \in 1..Len(call.arguments[k].arguments) :
                   call.arguments[k].arguments[l].text \notin {"preHandler", "onRequest"}

CallBased(e) == e.type \in {"express", "fastify", "koa"}

\* the findings of an endpoint, in the order the engine emitted them
FindingsOf(e) ==
    LET own == SelectSeq(findings, LAMBDA f : f.endpoint = e)
    IN [k \in 1..Len(own) |-> <<own[k].ruleId, own[k].severity>>]

Evaluated == pc \in {"report", "done"}

\* C4: a call-based GET endpoint without middleware arguments, on a route
\* without sensitive keywords, is public, neither explicitly public nor
\* authenticated, and its findings are exactly AP001 (high) and AP008 (high).
C4_UnprotectedGetFindings ==
    Evaluated =>
        \A i \in 1..Len(endpoints) :
            LET e == endpoints[i]
            IN (/\ CallBased(e)
                /\ e.method = "GET"
                /\ NoMiddlewareArguments(SiteOf(e))
                /\ ~HasSensitiveKeyword(e.route))
               => /\ e.authorization.classification = "public"
                  /\ ~e.authorization.isExplicitlyPublic
                  /\ ~e.authorization.isAuthenticated
                  /\ FindingsOf(e) = <<<<"AP001", "high">>, <<"AP008", "high">>>>

\* the scan has reported on app.get('/api/products', handler)
C4_Witness ==
    /\ pc = "done"
    /\ \E i \in 1..Len(endpoints) :
           /\ endpoints[i].type = "express"
           /\ endpoints[i].method = "GET"
           /\ endpoints[i].route = "/api/products"
           /\ NoMiddlewareArguments(SiteOf(endpoints[i]))
           /\ Len(FindingsOf(endpoints[i])) = 2

\* C5: a call-based endpoint with a write method (POST, PUT, DELETE, PATCH)
\* without middleware arguments, on a route without sensitive keywords, gets
\* exactly the findings AP001, AP004 (critical) and AP008.
C5_UnprotectedWriteFindings ==
    Evaluated =>
        \A i \in 1..Len(endpoints) :
            LET e == endpoints[i]
            IN (/\ CallBased(e)
                /\ e.method \in {"POST", "PUT", "DELETE", "PATCH"}
                /\ NoMiddlewareArguments(SiteOf(e))
                /\ ~HasSensitiveKeyword(e.route))
               => FindingsOf(e)
                      = <<<<"AP001", "high">>, <<"AP004", "critical">>, <<"AP008", "high">>>>

\* the scan has reported on a PATCH route without middleware
C5_Witness ==
    /\ pc = "done"
    /\ \E i \in 1..Len(endpoints) :
           /\ CallBased(endpoints[i])
           /\ endpoints[i].method = "PATCH"
           /\ NoMiddlewareArguments(SiteOf(endpoints[i]))
           /\ ~HasSensitiveKeyword(endpoints[i].route)
           /\ Len(FindingsOf(endpoints[i])) = 3

\* the name of a middleware argument as written: an identifier, or the
\* property of a property access
WrittenName(node) ==
    IF isIdentifier(node) \/ isPropertyAccessExpression(node) THEN <<node.text>> ELSE <<>>

TablePublicMarkers == {"allowanonymous", "public", "skipauth", "noauth", "optional"}

\* the call has exactly one middleware argument, named like a public marker
OnlyPublicMarker(call) ==
    /\ Len(call.arguments) = 3
    /\ WrittenName(call.arguments[2]) # <<>>
    /\ toLowerCase(WrittenName(call.arguments[2])[1]) \in TablePublicMarkers

\* C6: an Express GET endpoint whose only middleware is a public marker
\* (allowAnonymous, public, skipAuth, noAuth, optional), on a route without
\* sensitive keywords, is explicitly public and gets no findings.
C6_PublicMarkerSilencesFindings ==
    Evaluated =>
        \A i \in 1..Len(endpoints) :
            LET e == endpoints[i]
            IN (/\ e.type = "express"
                /\ e.method = "GET"
                /\ OnlyPublicMarker(SiteOf(e))
                /\ ~HasSensitiveKeyword(e.route))
               => /\ e.authorization.isExplicitlyPublic
                  /\ FindingsOf(e) = <<>>

\* the scan has reported on app.get('/api/products', noAuth, handler)
C6_Witness ==
    /\ pc = "done"
    /\ \E i \in 1..Len(endpoints) :
           /\ endpoints[i].type = "express"
           /\ endpoints[i].method = "GET"
           /\ OnlyPublicMarker(SiteOf(endpoints[i]))
           /\ SiteOf(endpoints[i]).arguments[2].text = "noAuth"
           /\ endpoints[i].authorization.isExplicitlyPublic

\* the class and the method a NestJS endpoint was discovered at
ClassOf(e) ==
    LET file == project[CHOOSE k \in 1..Len(project) :
                            project[k].filePath = e.location.filePath]
    IN file.statements[e.location.line]

MethodOf(e) == ClassOf(e).arguments[e.location.column - 1]

\* the name a decorator is written with
WrittenDecoratorName(d) ==
    IF isIdentifier(d) THEN d.text
    ELSE IF isCallExpression(d) /\ isIdentifier(d.expression[1]) THEN d.expression[1].text
    ELSE ""

HasDecorator(node, names) ==
    \E k \in 1..Len(node.decorators) : WrittenDecoratorName(node.decorators[k]) \in names

\* the class registers a guard that authenticates: @UseGuards(AuthGuard) or
\* @UseGuards(JwtAuthGuard)
ClassIsGuarded(class) ==
    \E k \in 1..Len(class.decorators) :
        /\ WrittenDecoratorName(class.decorators[k]) = "UseGuards"
        /\ \E l \in 1..Len(class.decorators[k].arguments) :
               /\ isIdentifier(class.decorators[k].arguments[l])
               /\ class.decorators[k].arguments[l].text \in {"AuthGuard", "JwtAuthGuard"}

TablePublicDecorators == {"Public", "AllowAnonymous", "SkipAuth", "NoAuth", "IsPublic"}

TableRoleOrPolicyDecorators ==
    {"Roles", "RequireRoles", "HasRoles", "Authorize", "Policies", "RequirePolicies",
     "CheckPolicies"}

\* a public-marker method of a guarded controller, no role or policy
\* decorator on either
PublicMethodOfGuardedClass(e) ==
    /\ e.type = "nestjs"
    /\ ClassIsGuarded(ClassOf(e))
    /\ HasDecorator(MethodOf(e), TablePublicDecorators)
    /\ ~HasDecorator(ClassOf(e), TableRoleOrPolicyDecorators)
    /\ ~HasDecorator(MethodOf(e), TableRoleOrPolicyDecorators)

\* C7 as stated: a public-marker method of a guarded NestJS controller is
\* explicitly public, still authenticated, classified authenticated, and
\* its findings are exactly AP003 (medium).
C7_OnlyAP003 ==
    Evaluated =>
        \A i \in 1..Len(endpoints) :
            LET e == endpoints[i]
            IN PublicMethodOfGuardedClass(e)
               => /\ e.authorization.isExplicitlyPublic
                  /\ e.authorization.isAuthenticated
                  /\ e.authorization.classification = "authenticated"
                  /\ FindingsOf(e) = <<<<"AP003", "medium">>>>

\* C7 amended: a public-marker method of a guarded NestJS controller is
\* explicitly public, still authenticated, classified authenticated; its
\* findings are exactly AP003 (medium) when its verb is not a write method,
\* and exactly AP002 (high) and AP003 (medium) when it is POST, PUT, DELETE
\* or PATCH.  AP001, AP004 and AP008 do not fire.
C7_AP003AndAP002OnWrites ==
    Evaluated =>
        \A i \in 1..Len(endpoints) :
            LET e == endpoints[i]
            IN PublicMethodOfGuardedClass(e)
               => /\ e.authorization.isExplicitlyPublic
                  /\ e.authorization.isAuthenticated
                  /\ e.authorization.classification = "authenticated"
                  /\ FindingsOf(e) =
                         IF e.method \in {"POST", "PUT", "DELETE", "PATCH"}
                         THEN <<<<"AP002", "high">>, <<"AP003", "medium">>>>
                         ELSE <<<<"AP003", "medium">>>>

\* the scan has reported on a guarded controller with a public GET method
\* and a public POST method
C7_Witness ==
    /\ pc = "done"
    /\ \E i, j \in 1..Len(endpoints) :
           /\ PublicMethodOfGuardedClass(endpoints[i])
           /\ PublicMethodOfGuardedClass(endpoints[j])
           /\ endpoints[i].method = "GET"
           /\ endpoints[j].method = "POST"
           /\ FindingsOf(endpoints[i]) = <<<<"AP003", "medium">>>>
           /\ Len(FindingsOf(endpoints[j])) = 2

\* the router mounts app.use('<prefix>', R) written in any file of the project
MountsOf(routerName) ==
    {call.arguments[1].text :
        call \in {c \in UNION {Range(findCallExpressions(project[k].statements)) :
                                  k \in 1..Len(project)} :
                     /\ isPropertyAccessExpression(c.expression[1])
                     /\ c.expression[1].text = "use"
                     /\ isIdentifier(c.expression[1].expression[1])
                     /\ Len(c.arguments) >= 2
                     /\ isStringLiteral(c.arguments[1])
                     /\ isIdentifier(c.arguments[2])
                     /\ c.arguments[2].text = routerName}}

Discovered == pc \in {"evaluate", "report", "done"}

\* C8 as stated: once the Express discoverer has run over the files, every
\* Express endpoint declared on a router that some file of the run mounts
\* carries a mount prefix of that router, whichever file holds the mount
\* and in whatever order the files were processed.
C8_MountsOfAllFilesApply ==
    Discovered =>
        \A i \in 1..Len(endpoints) :
            LET e == endpoints[i]
                site == SiteOf(e)
                routerName == site.expression[1].expression[1].text
                path == Express_extractRoutePath(site.arguments[1])[1]
            IN (e.type = "express" /\ MountsOf(routerName) # {})
               => \E prefix \in MountsOf(routerName) :
                      e.route = Express_normalizePath(prefix \o path)

\* a filter is present when it is given and not the empty string
FilterPresent(filter) == filter # <<>> /\ filter[1] # ""

\* the conjunction of the present filters of a suppression on a finding
PresentFiltersMatch(s, f) ==
    /\ FilterPresent(s.ruleId) => s.ruleId[1] = f.ruleId
    /\ FilterPresent(s.method) => toLowerCase(s.method[1]) = toLowerCase(f.endpoint.method)
    /\ FilterPresent(s.route) => s.route[1] = f.endpoint.route
    /\ FilterPresent(s.routePattern) =>
           matchesRoutePattern(s.routePattern[1], f.endpoint.route)

MatchingSuppressions(f) ==
    {k \in 1..Len(suppressions) : PresentFiltersMatch(suppressions[k], f)}

\* C9: each finding is marked by the first suppression of the list whose
\* present filters all match it (suppressed, with that suppression's
\* reason), whatever later suppressions match; a finding no suppression
\* matches is not marked.
C9_FirstMatchingSuppressionWins ==
    pc = "applied" =>
        /\ Len(result) = Len(findings)
        /\ \A i \in 1..Len(findings) :
               LET matching == MatchingSuppressions(findings[i])
               IN IF matching = {}
                  THEN /\ ~result[i].suppressed
                       /\ result[i].suppressionReason = <<>>
                  ELSE LET first == CHOOSE k \in matching : \A l \in matching : k <= l
                       IN /\ result[i].suppressed
                          /\ result[i].suppressionReason = <<suppressions[first].reason>>

\* a finding matched by two suppressions, the first of them with two
\* filters, carries the first one's reason
C9_Witness ==
    /\ pc = "applied"
    /\ \E i \in 1..Len(findings) :
           /\ MatchingSuppressions(findings[i]) = {1, 2}
           /\ FilterPresent(suppressions[1].ruleId)
           /\ FilterPresent(suppressions[1].method)
           /\ suppressions[1].reason # suppressions[2].reason
           /\ result[i].suppressionReason = <<suppressions[1].reason>>

\* C10: applySuppressionsToFindings returns as many findings as it was
\* given, in the same order; an unmatched finding is returned unchanged, a
\* matched one differs only in suppressed and suppressionReason; and the
\* findings given are left as they were.
C10_SuppressionOnlyMarks ==
    [][pc = "matcher" =>
          /\ findings' = findings
          /\ Len(result') = Len(findings)
          /\ \A i \in 1..Len(findings) :
                 /\ MatchingSuppressions(findings[i]) = {} => result'[i] = findings[i]
                 /\ [result'[i] EXCEPT !.suppressed = findings[i].suppressed,
                                       !.suppressionReason = findings[i].suppressionReason]
                        = findings[i]]_vars

\* five findings went in, five came out, some marked and some not
C10_Witness ==
    /\ pc = "applied"
    /\ Len(findings) = 5
    /\ Len(result) = 5
    /\ \E i, j \in 1..Len(result) :
           /\ i < j
           /\ ~result[i].suppressed
           /\ result[j].suppressed
           /\ result[j] # findings[j]

\* the glob reading of a route pattern: ** stands for any remaining path,
\* a single * for one non-empty path segment, any other character for itself
RECURSIVE GlobFrom(_, _, _, _)
GlobFrom(pattern, i, route, j) ==
    IF i > Len(pattern) THEN j > Len(route)
    ELSE IF i < Len(pattern) /\ SubSeq(pattern, i, i + 1) = "**"
    THEN \E k \in j..(Len(route) + 1) : GlobFrom(pattern, i + 2, route, k)
    ELSE IF CharAt(pattern, i) = "*"
    THEN \E k \in (j + 1)..(Len(route) + 1) :
             /\ ~includes(SubSeq(route, j, k - 1), "/")
             /\ GlobFrom(pattern, i + 1, route, k)
    ELSE /\ j <= Len(route)
         /\ CharAt(route, j) = CharAt(pattern, i)
         /\ GlobFrom(pattern, i + 1, route, j + 1)

GlobMatches(pattern, route) == GlobFrom(pattern, 1, route, 1)

\* a suppression whose only present filter is its routePattern
OnlyRoutePattern(s) ==
    /\ FilterPresent(s.routePattern)
    /\ ~FilterPresent(s.ruleId)
    /\ ~FilterPresent(s.method)
    /\ ~FilterPresent(s.route)

\* C11 as stated: a routePattern matches a route as an anchored whole-route
\* glob.  With suppressions that filter by routePattern alone, a finding is
\* suppressed exactly when the glob of some suppression matches its route.
C11_RoutePatternIsGlob ==
    pc = "applied" =>
        \A i \in 1..Len(findings) :
            (\A k \in 1..Len(suppressions) : OnlyRoutePattern(suppressions[k]))
                => (result[i].suppressed
                      <=> \E k \in 1..Len(suppressions) :
                              GlobMatches(suppressions[k].routePattern[1],
                                          findings[i].endpoint.route))

\* a suppression whose routePattern is present and does not compile
Uncompilable(s) ==
    /\ FilterPresent(s.routePattern)
    /\ ~RegExp(regexSourceOf(s.routePattern[1])).ok

\* the suppressions that compile and whose present filters match the finding
UsableSuppressions(f) ==
    {k \in MatchingSuppressions(f) : ~Uncompilable(suppressions[k])}

\* C12: a suppression whose routePattern cannot be compiled matches nothing.
\* Applying the list returns every finding; a finding is marked by the first
\* suppression that compiles and matches it, wherever the uncompilable ones
\* stand in the list, and is left unmarked when there is none.
C12_UncompilablePatternMatchesNothing ==
    pc = "applied" =>
        /\ Len(result) = Len(findings)
        /\ \A i \in 1..Len(findings) :
               LET usable == UsableSuppressions(findings[i])
               IN IF usable = {}
                  THEN /\ ~result[i].suppressed
                       /\ result[i].suppressionReason = <<>>
                  ELSE LET first == CHOOSE k \in usable : \A l \in usable : k <= l
                       IN /\ result[i].suppressed
                          /\ result[i].suppressionReason = <<suppressions[first].reason>>

\* the list starts with a suppression filtering only by the pattern ?, which
\* does not compile, and the finding carries the reason of the one after it
C12_Witness ==
    /\ pc = "applied"
    /\ Len(suppressions) = 2
    /\ OnlyRoutePattern(suppressions[1])
    /\ Uncompilable(suppressions[1])
    /\ \E i \in 1..Len(findings) :
           /\ result[i].suppressed
           /\ result[i].suppressionReason = <<suppressions[2].reason>>

TableCatalogue == <<"AP001", "AP002", "AP003", "AP004", "AP005", "AP006", "AP007", "AP008">>

\* the rule's entry of the configuration says enabled = false
DisabledByConfig(id) ==
    /\ id \in DOMAIN configuration.rules
    /\ configuration.rules[id].enabled = FALSE

CataloguePosition(id) == CHOOSE k \in 1..Len(TableCatalogue) : TableCatalogue[k] = id

\* the findings of the enabled catalogue rules from position k on, for one endpoint
RECURSIVE EnabledFindingsFrom(_, _)
EnabledFindingsFrom(k, endpoint) ==
    IF k > Len(TableCatalogue) THEN <<>>
    ELSE (IF DisabledByConfig(TableCatalogue[k]) THEN <<>>
          ELSE evaluateRule(TableCatalogue[k], endpoint))
         \o EnabledFindingsFrom(k + 1, endpoint)

\* endpoint by endpoint from position i on, catalogue order within each
RECURSIVE OrderedFindingsFrom(_)
OrderedFindingsFrom(i) ==
    IF i > Len(endpoints) THEN <<>>
    ELSE EnabledFindingsFrom(1, endpoints[i]) \o OrderedFindingsFrom(i + 1)

\* C13: the catalogue is AP001..AP008 in that order; construction keeps
\* exactly the rules the configuration does not disable, in catalogue order;
\* evaluate returns the findings endpoint by endpoint in input order and, for
\* one endpoint, in catalogue order, none of them from a disabled rule.
C13_CatalogueOrderAndDisabling ==
    /\ allRules = TableCatalogue
    /\ pc \in {"engine", "evaluated"} =>
           /\ Range(rules) = {id \in Range(TableCatalogue) : ~DisabledByConfig(id)}
           /\ \A a, b \in 1..Len(rules) :
                  a < b => CataloguePosition(rules[a]) < CataloguePosition(rules[b])
    /\ pc = "evaluated" =>
           /\ findings = OrderedFindingsFrom(1)
           /\ \A i \in 1..Len(findings) : ~DisabledByConfig(findings[i].ruleId)

\* two endpoints were evaluated with AP004 and AP006 disabled and AP008
\* enabled by its entry: the findings of the first endpoint come first, each
\* group in catalogue order
C13_Witness ==
    /\ pc = "evaluated"
    /\ Len(endpoints) = 2
    /\ endpoints[1] # endpoints[2]
    /\ DisabledByConfig("AP004")
    /\ "AP008" \in DOMAIN configuration.rules
    /\ rules = <<"AP001", "AP002", "AP003", "AP005", "AP007", "AP008">>
    /\ Len(findings) = 4
    /\ findings[1].endpoint = endpoints[1]
    /\ findings[2].endpoint = endpoints[1]
    /\ findings[3].endpoint = endpoints[2]
    /\ CataloguePosition(findings[1].ruleId) < CataloguePosition(findings[2].ruleId)
    /\ CataloguePosition(findings[3].ruleId) < CataloguePosition(findings[4].ruleId)
    /\ CataloguePosition(findings[3].ruleId) < CataloguePosition(findings[2].ruleId)

\* the prefixes of the mounts of a router identifier, whichever file
\* registered them
MountPrefixes(routerName) ==
    {registry.routerMounts[i].items[j].prefix :
        <<i, j>> \in {<<i, j>> \in (1..Len(registry.routerMounts)) \X (1..MaxRegistrations + 3) :
                          /\ j <= Len(registry.routerMounts[i].items)
                          /\ registry.routerMounts[i].items[j].routerName = routerName}}

\* C14: the prefix lookup for a router identifier returns the prefix of a
\* mount registered for that identifier by some file, the same for every
\* file passed to the lookup; for an identifier never mounted it returns the
\* empty prefix.
C14_PrefixLookupIgnoresFile ==
    result.call = "getRouterPrefix" =>
        /\ IF MountPrefixes(result.name) = {}
           THEN result.returned = ""
           ELSE result.returned \in MountPrefixes(result.name)
        /\ \A filePath \in RegistryFiles \cup {"src/other.ts"} :
               getRouterPrefix(registry, filePath, result.name) = result.returned

\* the lookup was made with a file other than the only one that mounted the
\* router, and returned that mount's prefix
C14_Witness ==
    /\ result.call = "getRouterPrefix"
    /\ result.returned # ""
    /\ Len(registry.routerMounts) = 1
    /\ ~startsWith(registry.routerMounts[1].key, result.filePath)

\* the step is the call of the interface with the given name
IsCall(name) == result'.call = name

\* C15: a registerGroup call makes its group the one the lookup returns for
\* its (file, identifier) key and leaves the lookup of every other key as it
\* was; a group lookup returns that group; and a middleware lookup returns
\* its middlewares, or the empty list for a key with no group.
C15_LastRegistrationWins ==
    [][\A filePath \in RegistryFiles, variableName \in RegistryNames :
           LET before == getGroup(registry, filePath, variableName)
               after == getGroup(registry', filePath, variableName)
               sameKey == result'.filePath = filePath /\ result'.name = variableName
           IN /\ (IsCall("registerGroup") /\ sameKey) =>
                     \E middlewares \in RegistryMiddlewares :
                         /\ registry' = registerGroup(registry, filePath, variableName,
                                                      "/v1", middlewares)
                         /\ after = <<[prefix |-> "/v1", middlewares |-> middlewares,
                                       variableName |-> variableName,
                                       filePath |-> filePath]>>
              /\ (IsCall("registerGroup") /\ ~sameKey) => after = before
              /\ (IsCall("getGroup") /\ sameKey) => result'.returned = before
              /\ (IsCall("getAllMiddlewares") /\ sameKey) =>
                     result'.returned =
                         IF before = <<>> THEN <<>> ELSE before[1].middlewares]_vars

\* two different groups were registered for one key, and the lookup of that
\* key returned the second
C15_Witness ==
    /\ result.call = "getGroup"
    /\ \E i \in 1..Len(registry.groups) :
           LET groups == registry.groups[i].items
           IN /\ registry.groups[i].key = makeKey(result.filePath, result.name)
              /\ Len(groups) = 2
              /\ groups[1] # groups[2]
              /\ result.returned = <<groups[2]>>

\* every key of the map m1 is a key of m2, with at least the same items in
\* the same places
MapKept(m1, m2) ==
    \A i \in 1..Len(m1) :
        \E j \in 1..Len(m2) :
            /\ m2[j].key = m1[i].key
            /\ Len(m2[j].items) >= Len(m1[i].items)
            /\ SubSeq(m2[j].items, 1, Len(m1[i].items)) = m1[i].items

RegistryKept(reg1, reg2) ==
    /\ MapKept(reg1.groups, reg2.groups)
    /\ MapKept(reg1.routerMounts, reg2.routerMounts)

\* C16: a lookup leaves the registry as it was; every call but clear,
\* discover(file) included, keeps every group and mount the registry held;
\* and after clear every prefix lookup returns the empty prefix and every
\* group and middleware lookup returns nothing.
C16_OnlyClearRemoves ==
    [][/\ (IsCall("getGroup") \/ IsCall("getRouterPrefix") \/ IsCall("getAllMiddlewares"))
              => registry' = registry
       /\ ~IsCall("clear") => RegistryKept(registry, registry')
       /\ IsCall("clear") =>
              \A filePath \in RegistryFiles, name \in RegistryNames :
                  /\ getRouterPrefix(registry', filePath, name) = ""
                  /\ getGroup(registry', filePath, name) = <<>>
                  /\ getAllMiddlewares(registry', filePath, name) = <<>>]_vars

\* discover ran on src/routes.ts while the registry held a mount registered
\* for src/app.ts, and resolved the route with that mount's prefix
C16_Witness ==
    /\ result.call = "discover"
    /\ result.filePath = "src/routes.ts"
    /\ Len(registry.routerMounts) = 1
    /\ startsWith(registry.routerMounts[1].key, "src/app.ts")
    /\ Len(result.returned) = 1
    /\ result.returned[1].route \in {"/api/items", "/v1/items"}

\* the class carries @UseGuards with a call to the AuthGuard factory as an
\* argument, as in @UseGuards(AuthGuard('jwt'))
ClassUsesGuardFactory(class) ==
    \E k \in 1..Len(class.decorators) :
        /\ WrittenDecoratorName(class.decorators[k]) = "UseGuards"
        /\ \E l \in 1..Len(class.decorators[k].arguments) :
               LET arg == class.decorators[k].arguments[l]
               IN /\ isCallExpression(arg)
                  /\ isIdentifier(arg.expression[1])
                  /\ arg.expression[1].text = "AuthGuard"

FindingIdsOf(e) == {FindingsOf(e)[k][1] : k \in 1..Len(FindingsOf(e))}

\* C17 as stated: every HTTP method of a NestJS controller whose class
\* carries @UseGuards(AuthGuard('jwt')) is authenticated; an undecorated GET
\* method gets no AP001, a method with a public marker gets AP003, and an
\* undecorated DELETE method gets no AP004.
C17_GuardFactoryAuthenticatesClass ==
    Evaluated =>
        \A i \in 1..Len(endpoints) :
            LET e == endpoints[i]
                undecorated == Len(MethodOf(e).decorators) = 1
            IN (e.type = "nestjs" /\ ClassUsesGuardFactory(ClassOf(e)))
               => /\ e.authorization.isAuthenticated
                  /\ (undecorated /\ e.method = "GET") => "AP001" \notin FindingIdsOf(e)
                  /\ HasDecorator(MethodOf(e), TablePublicDecorators)
                         => "AP003" \in FindingIdsOf(e)
                  /\ (undecorated /\ e.method = "DELETE") => "AP004" \notin FindingIdsOf(e)

TableRoleMiddlewares ==
    {"requireRole", "hasRole", "roles", "checkRole", "authorize", "can", "permit"}

\* the argument is a call of a role middleware with a string literal, as in
\* requireRole('admin')
IsRoleCall(arg) ==
    /\ isCallExpression(arg)
    /\ isIdentifier(arg.expression[1])
    /\ arg.expression[1].text \in TableRoleMiddlewares
    /\ Len(arg.arguments) = 1
    /\ isStringLiteral(arg.arguments[1])

\* C18 as stated: in the Express discoverer every middleware argument of
\* the form requireRole('<role>') adds that role to the endpoint's roles,
\* so the endpoint is role-restricted, gets AP006 when the role is admin
\* and AP005 when it has more than three roles.
C18_RoleCallContributesRole ==
    Evaluated =>
        \A i \in 1..Len(endpoints) :
            LET e == endpoints[i]
                args == SiteOf(e).arguments
            IN e.type = "express" =>
                   \A k \in 2..(Len(args) - 1) :
                       IsRoleCall(args[k]) =>
                           /\ args[k].arguments[1].text \in Range(e.authorization.roles)
                           /\ e.authorization.classification = "role-restricted"
                           /\ args[k].arguments[1].text = "admin"
                                  => "AP006" \in FindingIdsOf(e)
                           /\ Len(e.authorization.roles) > 3
                                  => "AP005" \in FindingIdsOf(e)

\* C19 as stated: in a scan with the four discoverers registered, no two
\* endpoints of the scan result have the same location (file, line, column).
C19_OneEndpointPerSite ==
    Discovered =>
        \A i, j \in 1..Len(endpoints) :
            i # j => endpoints[i].location # endpoints[j].location

\* C20 as stated: the findings the scan hands to the formatter have passed
\* through the suppression matcher: every finding matched by a suppression
\* of the configuration arrives with suppressed = true and the reason of a
\* suppression that matches it.
C20_SuppressionsReachFormatter ==
    pc = "done" =>
        \A i \in 1..Len(result) :
            LET matching == {k \in 1..Len(configuration.suppressions) :
                                PresentFiltersMatch(configuration.suppressions[k], result[i])}
            IN matching # {} =>
                   /\ result[i].suppressed
                   /\ \E k \in matching :
                          result[i].suppressionReason =
                              <<configuration.suppressions[k].reason>>

-----------------------------------------------------------------------------
(* Two suppression matchers in a row: the findings one matcher returned are *)
(* handed to a second matcher, constructed with the same list or with the  *)
(* list without its first entry.  configuration keeps the first list,      *)
(* findings the input of the second matcher.                               *)

ReapplyFilters ==
    {Filters(<<>>, <<>>, <<>>, <<>>),
     Filters(<<"AP001">>, <<>>, <<>>, <<>>),
     Filters(<<>>, <<"post">>, <<>>, <<>>),
     Filters(<<>>, <<>>, <<"/api/health">>, <<>>),
     Filters(<<"AP008">>, <<>>, <<>>, <<"/api/orders">>)}

InitReapply ==
    /\ \E k \in 0..MaxSuppressions :
           \E filters \in [1..k -> ReapplyFilters] :
               suppressions =
                   [i \in 1..k |->
                       [ruleId |-> filters[i].ruleId,
                        route |-> filters[i].route,
                        routePattern |-> filters[i].routePattern,
                        method |-> filters[i].method,
                        reason |-> Reasons[i]]]
    /\ \E statements \in FindingSources :
           /\ project = <<LoadedSourceFile("src/routes.ts", statements)>>
           /\ endpoints = Express_discover(NewRouteGroupRegistry, project[1]).endpoints
    /\ rules = initializeRules([rules |-> <<>>])
    /\ findings = RuleEngine_evaluate(rules, endpoints)
    /\ pc = "matcher"
    /\ di = 1
    /\ fi = 1
    /\ registry = NewRouteGroupRegistry
    /\ configuration = ApiPostureConfig(<<>>, suppressions)
    /\ result = <<>>

\* new SuppressionMatcher(list).applySuppressionsToFindings(result)
Reapply ==
    /\ pc = "applied"
    /\ \E list \in {suppressions, SubSeq(suppressions, 2, Len(suppressions))} :
           /\ suppressions' = list
           /\ result' = applySuppressionsToFindings(list, result)
    /\ findings' = result
    /\ pc' = "reapplied"
    /\ UNCHANGED <<project, di, fi, registry, endpoints, rules, configuration>>

NextReapply ==
    \/ ApplySuppressions
    \/ Reapply

SpecReapply == InitReapply /\ [][NextReapply]_vars

-----------------------------------------------------------------------------
(* C21 *)

\* ProjectAnalyzer.discoverEndpoints(sourceFiles) with the discoverers of
\* runScan: every discoverer in registration order, every file in load
\* order, the Express discoverer keeping its registry from file to file
RECURSIVE Express_discoverFiles(_, _)
Express_discoverFiles(reg, files) ==
    IF Len(files) = 0 THEN <<>>
    ELSE LET discovered == Express_discover(reg, files[1])
         IN discovered.endpoints \o Express_discoverFiles(discovered.registry, Tail(files))

RECURSIVE discoverFiles(_, _)
discoverFiles(name, files) ==
    IF Len(files) = 0 THEN <<>>
    ELSE (CASE name = "nestjs" -> NestJS_discover(files[1])
            [] name = "fastify" -> Fastify_discover(files[1])
            [] name = "koa" -> Koa_discover(files[1]))
         \o discoverFiles(name, Tail(files))

RECURSIVE discoverEndpointsFrom(_, _)
discoverEndpointsFrom(names, files) ==
    IF Len(names) = 0 THEN <<>>
    ELSE (IF names[1] = "express" THEN Express_discoverFiles(NewRouteGroupRegistry, files)
          ELSE discoverFiles(names[1], files))
         \o discoverEndpointsFrom(Tail(names), files)

discoverEndpoints(files) == discoverEndpointsFrom(discoverers, files)

\* a statement the global auth analyzer reads a global guard or a global
\* prefix from
IsGlobalRegistration(statement) ==
    LET config == GlobalAuth_analyzeFile(LoadedSourceFile("", <<statement>>),
                                         NewGlobalAuthConfig)
    IN config.hasGlobalGuard \/ config.hasGlobalPrefix

\* the project without its global guard and global prefix registrations
WithoutGlobalRegistrations(files) ==
    [i \in 1..Len(files) |->
        LoadedSourceFile(files[i].filePath,
                         SelectSeq(files[i].statements,
                                   LAMBDA s : ~IsGlobalRegistration(s)))]

\* an endpoint and a finding without the source position, which moves when
\* a statement is written above the route
Unlocated(e) == [e EXCEPT !.location = <<>>]

UnlocatedFinding(f) == [f EXCEPT !.location = <<>>, !.endpoint = Unlocated(@)]

\* some statement of the project is a global guard or global prefix
\* registration
HasGlobalRegistration(files) ==
    \E i \in 1..Len(files) :
        \E j \in 1..Len(files[i].statements) :
            IsGlobalRegistration(files[i].statements[j])

\* C21: the endpoints and the findings of a scan of a project with global
\* guard or global prefix registrations are, position in the source aside,
\* those of the scan of the same project without them; when the
\* registrations follow the routes the positions are the same too.
C21_GlobalAuthSummaryNotMerged ==
    (pc = "done" /\ HasGlobalRegistration(project)) =>
        LET base == WithoutGlobalRegistrations(project)
            baseEndpoints == discoverEndpoints(base)
            baseFindings == RuleEngine_evaluate(initializeRules([rules |-> <<>>]),
                                                baseEndpoints)
            registrationsLast ==
                \A i \in 1..Len(project) :
                    \A j, k \in 1..Len(project[i].statements) :
                        (IsGlobalRegistration(project[i].statements[j]) /\ j < k)
                            => IsGlobalRegistration(project[i].statements[k])
        IN /\ Len(endpoints) = Len(baseEndpoints)
           /\ \A i \in 1..Len(endpoints) : Unlocated(endpoints[i]) = Unlocated(baseEndpoints[i])
           /\ Len(result) = Len(baseFindings)
           /\ \A i \in 1..Len(result) :
                  UnlocatedFinding(result[i]) = UnlocatedFinding(baseFindings[i])
           /\ registrationsLast => (endpoints = baseEndpoints /\ result = baseFindings)

\* a scan whose project registers a global guard the analyzer names, with an
\* endpoint reported public and a finding on it
C21_Witness ==
    /\ pc = "done"
    /\ GlobalAuth_analyze(project).hasGlobalGuard
    /\ GlobalAuth_analyze(project).globalGuardName = <<"JwtAuthGuard">>
    /\ \E i \in 1..Len(endpoints) :
           /\ endpoints[i].type = "nestjs"
           /\ endpoints[i].authorization.classification = "public"
           /\ \E j \in 1..Len(result) :
                  result[j].endpoint = endpoints[i] /\ result[j].ruleId = "AP001"

-----------------------------------------------------------------------------
(* C22 *)

\* the class carries, besides @Controller, exactly one @UseGuards(G) with G
\* an identifier
ClassGuardIdentifier(class) ==
    /\ Len(class.decorators) = 2
    /\ WrittenDecoratorName(class.decorators[2]) = "UseGuards"
    /\ Len(class.decorators[2].arguments) = 1
    /\ isIdentifier(class.decorators[2].arguments[1])

\* the same controller with its @UseGuards(G) written on every method
\* instead of on the class
GuardMovedToMethods(class) ==
    [class EXCEPT
        !.decorators = <<@[1]>>,
        !.arguments = [k \in 1..Len(@) |->
                          [@[k] EXCEPT !.decorators = @ \o <<class.decorators[2]>>]]]

\* C22 as stated: an endpoint of a controller with @UseGuards(G) on the
\* class has the isAuthenticated, guardNames and classification that the
\* same method has when @UseGuards(G) is written on the method.
C22_ClassAndMethodGuardsAlike ==
    Discovered =>
        \A i \in 1..Len(endpoints) :
            LET e == endpoints[i]
                class == ClassOf(e)
                moved == NestJS_processClass(GuardMovedToMethods(class),
                                             e.location.filePath, e.location.line)
            IN (e.type = "nestjs" /\ ClassGuardIdentifier(class)
                    /\ Len(MethodOf(e).decorators) = 1)
               => \E k \in 1..Len(moved) :
                      /\ moved[k].location = e.location
                      /\ moved[k].authorization.isAuthenticated
                             = e.authorization.isAuthenticated
                      /\ moved[k].authorization.guardNames = e.authorization.guardNames
                      /\ moved[k].authorization.classification
                             = e.authorization.classification

-----------------------------------------------------------------------------
(* C23 *)

TableAuthMiddlewares ==
    {"jwt", "expressjwt", "requireauth", "ensureauthenticated", "isauthenticated",
     "authenticate", "authmiddleware", "checkauth", "verifytoken", "validatetoken",
     "bearertoken", "auth", "protected"}

TableAuthKeywords == {"auth", "jwt", "token", "session", "login", "secure"}

\* the category of a middleware name: the first of public marker,
\* authentication, role assignment and auth keyword that applies.  The
\* three tables are tested on the part of the name after its last dot, the
\* keywords on the whole name, all without regard to case.
CategoryOf(name) ==
    LET whole == toLowerCase(trim(name))
        func == lastSegment(whole)
    IN IF func \in TablePublicMarkers THEN "public"
       ELSE IF func \in TableAuthMiddlewares THEN "authentication"
       ELSE IF func \in {toLowerCase(r) : r \in TableRoleMiddlewares} THEN "role"
       ELSE IF \E kw \in TableAuthKeywords : includes(whole, kw) THEN "keyword"
       ELSE "none"

\* the middleware names the Express discoverer reads from the arguments
\* between the path and the handler
WrittenMiddlewares(call) ==
    LET args == SubSeq(call.arguments, 2, Len(call.arguments) - 1)
        names == [k \in 1..Len(args) |-> Express_extractMiddlewareName(args[k])]
        kept == SelectSeq(names, LAMBDA x : x # <<>>)
    IN [k \in 1..Len(kept) |-> kept[k][1]]

\* C23: when discovery ends, the middlewareChain of an Express endpoint
\* holds every middleware name of the call; isExplicitlyPublic is set exactly by a name of category
\* public; isAuthenticated exactly by a name of category authentication,
\* role or keyword; guardNames is the names of category authentication or
\* keyword, in order; and roles is empty unless a name has category role.
C23_FirstMatchingCategoryApplies ==
    pc = "evaluate" =>
        \A i \in 1..Len(endpoints) :
            LET e == endpoints[i]
                auth == e.authorization
                chain == auth.middlewareChain
                has(categories) ==
                    \E k \in 1..Len(chain) : CategoryOf(chain[k]) \in categories
            IN e.type = "express" =>
                  /\ chain = WrittenMiddlewares(SiteOf(e))
                  /\ auth.isExplicitlyPublic = has({"public"})
                  /\ auth.isAuthenticated = has({"authentication", "role", "keyword"})
                  /\ auth.guardNames =
                         SelectSeq(chain, LAMBDA name :
                                      CategoryOf(name) \in {"authentication", "keyword"})
                  /\ (auth.roles # <<>>) => has({"role"})

\* an Express endpoint behind noAuth, which is a public marker and holds
\* the keyword auth, and authorize, which is a role middleware and holds
\* the keyword auth
C23_Witness ==
    /\ Discovered
    /\ \E i \in 1..Len(endpoints) :
           /\ endpoints[i].type = "express"
           /\ endpoints[i].authorization.middlewareChain = <<"noAuth", "authorize">>
           /\ endpoints[i].authorization.isExplicitlyPublic
           /\ endpoints[i].authorization.isAuthenticated
           /\ endpoints[i].authorization.guardNames = <<>>
           /\ endpoints[i].authorization.roles = <<>>

-----------------------------------------------------------------------------
(* C24 *)

TableVerbs == {"get", "post", "put", "delete", "patch", "options", "head", "all"}

\* the receivers each call-based discoverer recognises
RecognisedReceiver(type, name) ==
    LET lower == toLowerCase(name)
    IN CASE type = "express" ->
                \/ name \in {"app", "router", "express"}
                \/ includes(lower, "router") \/ includes(lower, "app")
         [] type = "fastify" ->
                \/ lower \in {"fastify", "server", "app", "instance"}
                \/ includes(lower, "fastify")
         [] type = "koa" ->
                \/ name \in {"router", "koaRouter", "apiRouter"}
                \/ includes(lower, "router") \/ includes(lower, "koa")

\* a string literal or a template literal that is not empty
NonEmptyLiteral(node) ==
    \/ (isStringLiteral(node) \/ isNoSubstitutionTemplateLiteral(node)) /\ node.text # ""
    \/ isTemplateExpression(node)

\* the initializers of the property of the given name in an object literal
PropertiesNamed(object, name) ==
    LET props == SelectSeq(object.arguments,
                           LAMBDA p : isPropertyAssignment(p) /\ p.text = name)
    IN [k \in 1..Len(props) |-> props[k].expression[1]]

\* receiver.route({method: '<verb>', url: '<path>', ...})
IsRouteObjectCall(call) ==
    /\ isPropertyAccessExpression(call.expression[1])
    /\ call.expression[1].text = "route"
    /\ isIdentifier(call.expression[1].expression[1])
    /\ RecognisedReceiver("fastify", call.expression[1].expression[1].text)
    /\ Len(call.arguments) > 0
    /\ isObjectLiteralExpression(call.arguments[1])
    /\ \E k \in 1..Len(PropertiesNamed(call.arguments[1], "method")) :
           LET m == PropertiesNamed(call.arguments[1], "method")[k]
           IN /\ isStringLiteral(m) \/ isNoSubstitutionTemplateLiteral(m)
              /\ toUpperCase(m.text) \in HttpMethod
    /\ \E k \in 1..Len(PropertiesNamed(call.arguments[1], "url")) :
           LET u == PropertiesNamed(call.arguments[1], "url")[k]
           IN (isStringLiteral(u) \/ isNoSubstitutionTemplateLiteral(u)) /\ u.text # ""

\* receiver.<verb>('<path>', ...) with a receiver the discoverer of the
\* given type recognises
IsVerbCall(type, call) ==
    /\ isPropertyAccessExpression(call.expression[1])
    /\ toLowerCase(call.expression[1].text) \in TableVerbs
    /\ isIdentifier(call.expression[1].expression[1])
    /\ RecognisedReceiver(type, call.expression[1].expression[1].text)
    /\ Len(call.arguments) > 0
    /\ NonEmptyLiteral(call.arguments[1])

\* every required field of the endpoint is resolved
FullyResolved(e) ==
    /\ e.route # "" /\ startsWith(e.route, "/")
    /\ e.method \in HttpMethod
    /\ e.handlerName # ""
    /\ e.authorization.classification \in Classifications

\* C24: when discovery ends, every endpoint of a call-based discoverer is
\* fully resolved and sits on a call site of one of the two recognised shapes: a Fastify
\* route({...}) call whose method and url are string literals, the method a
\* recognised one, or a verb call with a non-empty literal path on a
\* recognised receiver.  The scan of every other call site ends without an
\* endpoint for it.
C24_OnlyResolvedSitesEmit ==
    pc = "evaluate" =>
        \A i \in 1..Len(endpoints) :
            LET e == endpoints[i]
            IN CallBased(e) =>
                  /\ FullyResolved(e)
                  /\ \/ e.type = "fastify" /\ IsRouteObjectCall(SiteOf(e))
                     \/ IsVerbCall(e.type, SiteOf(e))

\* a scan that has run every discoverer over a route({...}) call with an
\* unrecognised method, a method that is not a literal or no url, and
\* emitted nothing
C24_Witness ==
    /\ Discovered
    /\ endpoints = <<>>
    /\ \E k \in 1..Len(project) :
           \E call \in Range(findCallExpressions(project[k].statements)) :
               /\ isPropertyAccessExpression(call.expression[1])
               /\ call.expression[1].text = "route"
               /\ ~IsRouteObjectCall(call)
               /\ \/ PropertiesNamed(call.arguments[1], "url") = <<>>
                  \/ \E m \in Range(PropertiesNamed(call.arguments[1], "method")) :
                         isIdentifier(m) \/ (isStringLiteral(m) /\ m.text = "TRACE")

-----------------------------------------------------------------------------
(* C25 *)

\* the file with its statements in the opposite order
Reversed(file) ==
    LoadedSourceFile(file.filePath,
                     [k \in 1..Len(file.statements) |->
                         file.statements[Len(file.statements) + 1 - k]])

\* the routes and methods of the endpoints, as a set
RoutesOf(eps) == {<<eps[k].method, eps[k].route>> : k \in 1..Len(eps)}

\* some statement of the file is a call of a method named use
HasUseCall(file) ==
    \E k \in 1..Len(file.statements) :
        /\ isCallExpression(file.statements[k])
        /\ isPropertyAccessExpression(file.statements[k].expression[1])
        /\ file.statements[k].expression[1].text = "use"

\* C25: when discovery ends in a project of one file that calls use, every
\* Express endpoint declared on a router the file mounts carries the prefix of a mount of that router,
\* whether the mount is written above or below the route; and the Express
\* discoverer finds the same routes in the file with its statements in the
\* opposite order.
C25_MountOrderInFileIrrelevant ==
    (pc = "evaluate" /\ Len(project) = 1 /\ HasUseCall(project[1])) =>
        /\ \A i \in 1..Len(endpoints) :
               LET e == endpoints[i]
                   site == SiteOf(e)
                   routerName == site.expression[1].expression[1].text
                   path == Express_extractRoutePath(site.arguments[1])[1]
               IN (e.type = "express" /\ MountsOf(routerName) # {})
                  => \E prefix \in MountsOf(routerName) :
                         e.route = Express_normalizePath(prefix \o path)
        /\ RoutesOf(SelectSeq(endpoints, LAMBDA e : e.type = "express"))
               = RoutesOf(Express_discover(NewRouteGroupRegistry,
                                           Reversed(project[1])).endpoints)

\* a route on router written above app.use('/api', router) and resolved
\* with the prefix /api
C25_Witness ==
    /\ Discovered
    /\ Len(project) = 1
    /\ Len(project[1].statements) = 2
    /\ project[1].statements[2] = MountCall("app", "/api", "router")
    /\ \E i \in 1..Len(endpoints) :
           /\ endpoints[i].type = "express"
           /\ endpoints[i].location.line = 1
           /\ endpoints[i].route = "/api/api/products"

-----------------------------------------------------------------------------
(* C26 *)

\* C26: every discovered endpoint with a role or a policy is authenticated,
\* and a discovered endpoint is classified public exactly when it is not
\* authenticated.
C26_RolesImplyAuthenticated ==
    \A i \in 1..Len(endpoints) :
        LET auth == endpoints[i].authorization
        IN /\ (Len(auth.roles) > 0 \/ Len(auth.policies) > 0) => auth.isAuthenticated
           /\ (auth.classification = "public") <=> ~auth.isAuthenticated

\* endpoints whose roles or policies are all that authenticates them: a
\* NestJS method with a role decorator and no guard, a NestJS method with
\* a policy decorator and no guard, and an Express route behind acl.can
C26_Witness ==
    /\ Discovered
    /\ \E i \in 1..Len(endpoints) :
           LET e == endpoints[i]
           IN /\ e.authorization.guardNames = <<>>
              /\ e.authorization.isAuthenticated
              /\ \/ e.type = "nestjs" /\ e.authorization.classification = "policy-restricted"
                                      /\ Len(e.authorization.roles) > 0
                 \/ e.type = "express" /\ e.authorization.roles = <<"can">>
                                       /\ e.authorization.classification = "role-restricted"

-----------------------------------------------------------------------------
(* C27 *)

\* the classification of the endpoint is the one determineClassification
\* computes from its other fields
ClassificationComputed(e) ==
    e.authorization.classification = determineClassification(e.authorization)

\* C27: with every rule enabled, an evaluated endpoint whose classification
\* is the computed one and that has an AP008 finding has an AP001 finding.
C27_AP008ImpliesAP001 ==
    pc = "evaluated" =>
        \A i \in 1..Len(endpoints) :
            (ClassificationComputed(endpoints[i])
                 /\ "AP008" \in FindingIdsOf(endpoints[i]))
                => "AP001" \in FindingIdsOf(endpoints[i])

\* an evaluated endpoint with the computed classification and both findings
C27_Witness ==
    /\ pc = "evaluated"
    /\ \E i \in 1..Len(endpoints) :
           /\ ClassificationComputed(endpoints[i])
           /\ {"AP001", "AP008"} \subseteq FindingIdsOf(endpoints[i])

-----------------------------------------------------------------------------
(* C28 *)

\* C28: a second matcher with the list of the first returns the findings
\* the first returned, and a second matcher with any list returns unchanged
\* every finding none of its suppressions matches, the suppressed flag and
\* the reason the first matcher gave it included.
C28_ReapplyingChangesNothing ==
    pc = "reapplied" =>
        /\ Len(result) = Len(findings)
        /\ suppressions = configuration.suppressions => result = findings
        /\ \A i \in 1..Len(findings) :
               (\A k \in 1..Len(suppressions) :
                    ~PresentFiltersMatch(suppressions[k], findings[i]))
                   => result[i] = findings[i]

\* a finding the first matcher suppressed went through a second matcher
\* none of whose suppressions matches it, and is still suppressed for the
\* first matcher's reason
C28_Witness ==
    /\ pc = "reapplied"
    /\ Len(suppressions) > 0
    /\ \E i \in 1..Len(findings) :
           /\ findings[i].suppressed
           /\ findings[i].suppressionReason = <<"intentional">>
           /\ \A k \in 1..Len(suppressions) :
                  ~PresentFiltersMatch(suppressions[k], findings[i])
           /\ result[i].suppressed
           /\ result[i].suppressionReason = <<"intentional">>

-----------------------------------------------------------------------------
(* C29 *)

\* C29: an endpoint of the Fastify or the Koa discoverer is not explicitly
\* public, has no roles and no policies, has its guard names among its
\* middleware chain, is authenticated exactly when it has a guard name, and
\* is classified public or authenticated; once evaluated, its findings are
\* among AP001, AP004, AP007 and AP008.
C29_FastifyKoaAuthorizationShape ==
    \A i \in 1..Len(endpoints) :
        LET e == endpoints[i]
            auth == e.authorization
        IN e.type \in {"fastify", "koa"} =>
              /\ ~auth.isExplicitlyPublic
              /\ auth.roles = <<>>
              /\ auth.policies = <<>>
              /\ Range(auth.guardNames) \subseteq Range(auth.middlewareChain)
              /\ auth.isAuthenticated <=> auth.guardNames # <<>>
              /\ auth.classification \in {"public", "authenticated"}
              /\ auth.classification = "authenticated" <=> auth.isAuthenticated
              /\ Evaluated => FindingIdsOf(e) \subseteq {"AP001", "AP004", "AP007", "AP008"}

\* an evaluated scan with a Koa or Fastify endpoint on which the four rules
\* all fired, or one with a guard and a further middleware and no finding
C29_Witness ==
    /\ Evaluated
    /\ \E i \in 1..Len(endpoints) :
           LET e == endpoints[i]
           IN /\ e.type \in {"fastify", "koa"}
              /\ \/ FindingIdsOf(e) = {"AP001", "AP004", "AP007", "AP008"}
                 \/ /\ e.authorization.guardNames = <<"authenticate">>
                    /\ Len(e.authorization.middlewareChain) = 2
                    /\ FindingIdsOf(e) = {}

-----------------------------------------------------------------------------
(* C30 *)

\* C30 as stated: two endpoints of a scan that the call-based discoverers
\* emitted for the same call site have the same route, the same method and
\* the same classification.
C30_SameVerdictFromEveryDiscoverer ==
    Discovered =>
        \A i, j \in 1..Len(endpoints) :
            (CallBased(endpoints[i]) /\ CallBased(endpoints[j])
                 /\ endpoints[i].location = endpoints[j].location)
                => /\ endpoints[i].route = endpoints[j].route
                   /\ endpoints[i].method = endpoints[j].method
                   /\ endpoints[i].authorization.classification
                          = endpoints[j].authorization.classification

====
